---- MODULE Spec2Model ----
(***************************************************************************)
(* Withings exporter: the REST request layer (api_client.py) and the fetch *)
(* orchestrator (fetcher.py) over the sync-state storage (storage.py).     *)
(*                                                                         *)
(* Time is counted in ticks, TicksPerDay ticks to a day, so that a         *)
(* datetime carries a time of day and strftime('%Y-%m-%d') truncates it.   *)
(* Python's None is the value None; a key missing from a JSON object is    *)
(* the value Absent.                                                       *)
(***************************************************************************)
EXTENDS Integers, Sequences, FiniteSets, TLC

None ==
    -1

Absent ==
    -2

\* The empty JSON object {}.
EmptyDict ==
    [k \in {} |-> None]

\* SQL NULL in a text column that otherwise holds an isoformat text.
NULL ==
    [date |-> None, time |-> None]

(* ------------------------------ bounds -------------------------------- *)

\* Length of the stream of HTTP responses the vendor holds ready for one
\* call of _make_request (one more than the code can consume).
MaxAttempts ==
    5

\* Resolution of the clock: ticks per day.
TicksPerDay ==
    2

\* Number of distinct pagination offsets the vendor can return.
MaxOffset ==
    2

\* Longest list of records in one response body.
MaxPerPage ==
    1

(* ------------------------- api_client.py ------------------------------ *)

MEASURE_ENDPOINT ==
    "/measure"

MEASURE_V2_ENDPOINT ==
    "/v2/measure"

SLEEP_V2_ENDPOINT ==
    "/v2/sleep"

USER_ENDPOINT ==
    "/v2/user"

\* Keys of STATUS_MESSAGES.
STATUS_MESSAGES ==
    {0, 100, 247, 286, 293, 294, 304, 305, 328, 342, 343, 601, 2554, 2555}

\* Envelope statuses the vendor is taken to answer with: success, the three
\* authentication codes, the rate limit, a listed and an unlisted error, a
\* literal -1, and an envelope without a status field.
VendorStatuses ==
    {0, 401, 328, 2554, 601, 2555, 999, -1, Absent}

\* The statuses drawn under the fetcher, one of each class of outcome.
FetchStatuses ==
    {0, 401, 601, 999}

\* Exceptions, as the class and the status_code the constructor stores.
WithingsAPIError(status_code) ==
    [class |-> "WithingsAPIError", status_code |-> status_code]

WithingsAuthError(status_code) ==
    [class |-> "WithingsAuthError", status_code |-> status_code]

\* WithingsRateLimitError.__init__ passes 601 to the base class.
WithingsRateLimitError ==
    [class |-> "WithingsRateLimitError", status_code |-> 601]

\* except WithingsAPIError catches the base class and its subclasses.
IsWithingsAPIError(exc) ==
    exc.class \in {"WithingsAPIError", "WithingsAuthError", "WithingsRateLimitError"}

\* No exception.
NoException ==
    [class |-> "none", status_code |-> 0]

\* What the transport records of one call: an HTTP request, or a sleep.
HttpEvent ==
    [ev |-> "http", secs |-> 0]

SleepEvent(secs) ==
    [ev |-> "sleep", secs |-> secs]

\* One HTTP exchange: a transport failure (connection error, timeout, HTTP
\* error status: any requests.exceptions.RequestException), or a JSON
\* envelope {status, body}.
TransportFailure ==
    [transport |-> "failed", status |-> Absent, body |-> EmptyDict]

Envelope(status, body) ==
    [transport |-> "ok", status |-> status, body |-> body]

\* The streams of responses one call can meet: rate-limited j times (j in
\* prefixes), then the same last response to every further attempt.
Streams(bodies, statuses, prefixes) ==
    LET lasts == {TransportFailure}
                 \cup {Envelope(0, b) : b \in bodies}
                 \cup {Envelope(s, EmptyDict) : s \in statuses \ {0}}
    IN { [i \in 1..MaxAttempts |->
            IF i <= j THEN Envelope(601, EmptyDict) ELSE last]
         : j \in prefixes, last \in lasts }

\* Under the fetcher: answered at once, or after one rate-limited attempt
\* (a stream of 601 alone is the last response 601).
FetchStreams(bodies) ==
    Streams(bodies, FetchStatuses, {0, 1})

\* Linear instead of exponential waiting.
BadBackoff(retry_count) ==
    60 * (retry_count + 1)

\* wait_time = min(60 * (2 ** retry_count), 300)
Backoff(retry_count) ==
    LET w == 60 * (2 ^ retry_count) IN IF w < 300 THEN w ELSE 300

\* Two retries instead of three.
BadMayRetry(retry_count) ==
    retry_count < 2

\* if retry_count < 3
MayRetry(retry_count) ==
    retry_count < 3

\* Status 328 not taken for an authentication error.
BadIsAuthStatus(status) ==
    status = 401 \/ status = 2554

\* elif status == 401 or status == 328 or status == 2554
IsAuthStatus(status) ==
    status = 401 \/ status = 328 \/ status = 2554

\* An envelope without a status field taken for a success.
BadStatusOf(response) ==
    IF response.status = Absent THEN 0 ELSE response.status

\* status = result.get('status', -1)
StatusOf(response) ==
    IF response.status = Absent THEN -1 ELSE response.status

\* Status 2555 retried like the rate limit.
BadIsRateLimitStatus(status) ==
    status = 601 \/ status = 2555

\* elif status == 601
IsRateLimitStatus(status) ==
    status = 601

\* _make_request(method, endpoint, params, data, retry_count): the outcome
\* against the stream of responses, with the trace of HTTP requests and
\* sleeps.  The result is [raised, exc, body, trace].
RECURSIVE _make_request(_, _, _)
_make_request(stream, retry_count, trace) ==
    LET response == IF retry_count + 1 <= MaxAttempts
                    THEN stream[retry_count + 1] ELSE TransportFailure
        sent     == Append(trace, HttpEvent)
        status   == StatusOf(response)
        Raise(e) == [raised |-> TRUE, exc |-> e, body |-> EmptyDict, trace |-> sent]
    IN  IF response.transport = "failed"
        THEN Raise(WithingsAPIError(-1))
        ELSE IF status = 0
        THEN [raised |-> FALSE, exc |-> NoException, body |-> response.body,
              trace |-> sent]
        ELSE IF IsAuthStatus(status)
        THEN Raise(WithingsAuthError(status))
        ELSE IF IsRateLimitStatus(status)
        THEN IF MayRetry(retry_count)
             THEN _make_request(stream, retry_count + 1,
                                Append(sent, SleepEvent(Backoff(retry_count))))
             ELSE Raise(WithingsRateLimitError)
        ELSE Raise(WithingsAPIError(status))

(* ------------------------- time and dates ----------------------------- *)

\* The day of the run.
Today ==
    3700

\* Offset of local time from UTC, in ticks.
UtcOffset ==
    1

\* timedelta(days=n)
Days(n) ==
    n * TicksPerDay

\* datetime.fromtimestamp(ts): the naive local datetime of a Unix timestamp.
fromtimestamp(ts) ==
    ts + UtcOffset

\* datetime.timestamp() of a naive local datetime.
timestamp(dt) ==
    dt - UtcOffset

\* datetime.isoformat(), the text sqlite stores for a datetime (the adapter
\* registered in storage.py): date part and time part.
isoformat(dt) ==
    [date |-> dt \div TicksPerDay, time |-> dt % TicksPerDay]

\* datetime.fromisoformat(text)
fromisoformat(text) ==
    text.date * TicksPerDay + text.time

\* dt.strftime('%Y-%m-%d'): the day of a datetime.
strftime(dt) ==
    dt \div TicksPerDay

\* datetime.combine(d, datetime.min.time()): midnight of day d.
combine(d) ==
    d * TicksPerDay

\* datetime.now() during the run.
Now ==
    Days(Today) + 1

(* --------------------------- vendor data ------------------------------ *)

DataTypes ==
    {"measurements", "activity", "sleep"}

\* Vendor measure type codes used here: 1 (weight) and 11 (heart rate).
Weight ==
    [type |-> 1, value |-> 7, unit |-> 1]

Pulse ==
    [type |-> 11, value |-> 6, unit |-> 1]

\* Unix timestamps of the vendor's records: 450 days and 100 days ago.
OldTs ==
    timestamp(Days(Today - 450))

NewTs ==
    timestamp(Days(Today - 100) + 1)

\* Measure groups the vendor holds; a group without 'date' is malformed.
MeasureGroups ==
    { [date |-> OldTs, measures |-> <<Weight, Pulse>>],
      [date |-> NewTs, measures |-> <<Weight>>] }

BadGroup ==
    [date |-> Absent, measures |-> <<>>]

\* Activity days the vendor holds ('date' as YYYY-MM-DD).
Activities ==
    { [date |-> Today - 450, steps |-> 1], [date |-> Today - 100, steps |-> 2] }

\* Sleep sessions the vendor holds ('startdate' as a Unix timestamp).
SleepSeries ==
    { [startdate |-> OldTs, sleep_score |-> 1],
      [startdate |-> NewTs, sleep_score |-> 2] }

\* An activity without 'date', a sleep session without 'startdate'.
BadActivity ==
    [date |-> Absent, steps |-> 0]

BadSeries ==
    [startdate |-> Absent, sleep_score |-> 0]

\* The data one account holds at the vendor, per endpoint.
Accounts ==
    << [measuregrps |-> MeasureGroups, activities |-> {}, series |-> {}],
       [measuregrps |-> {}, activities |-> Activities, series |-> {}],
       [measuregrps |-> {}, activities |-> {}, series |-> SleepSeries] >>

\* Lists of at most MaxPerPage elements of S.
ListsOf(S) ==
    UNION { [1..n -> S] : n \in 0..MaxPerPage }

\* Pagination offsets the vendor can return.
Offsets ==
    0..(MaxOffset - 1)

\* Bodies of GET /measure?action=getmeas: a list of groups of the account
\* (or malformed ones), 'more' (true as 1, false as 0, or missing) and
\* 'offset' (a number, or null).
MeasBodies(acct) ==
    { b \in [ measuregrps : ListsOf(acct.measuregrps \cup {BadGroup}),
              more : {1, 0, Absent},
              offset : Offsets \cup {None} ] :
        b.more # 1 => b.offset = None }

\* Bodies of GET /v2/measure?action=getactivity.
ActivityBodies(acct) ==
    [ activities : ListsOf(acct.activities \cup {BadActivity}) ]

\* Bodies of POST /v2/sleep?action=getsummary.
SleepBodies(acct) ==
    [ series : ListsOf(acct.series \cup {BadSeries}) ]

\* Elements of a list, as a set.
Elems(list) ==
    { list[i] : i \in DOMAIN list }

\* max(...) of a non-empty set of numbers.
Max(S) ==
    CHOOSE x \in S : \A y \in S : y <= x

(* ------------------------------ state --------------------------------- *)

VARIABLES
    \* storage.py: the sync_state table and the four record tables
    sync_state, measurements, heart_rate, activity_summary, sleep_summary,
    \* how often update_sync_state has written each row of sync_state since
    \* fetch_all_data was called
    writes,
    \* the data the account holds at the vendor, and the enabled data types
    \* of the configuration (config.enabled_data_types)
    account, enabled_data_types,
    \* api_client.py: the last call of the client and its outcome
    api_request, api_stream, api_result,
    \* fetcher.py, fetch_all_data: its frame
    fa,
    \* fetcher.py, the running fetch_measurements / fetch_activity /
    \* fetch_sleep: position and local variables
    pc, start_date, end_date, store_heart_rate, collected, heart_rates,
    last_timestamp, offset, seen_offsets, current_date,
    \* what the running (or last) fetch did: the type fetched, the arguments
    \* of its calls of the API client, the pages it was answered, the
    \* records it was served, the API errors it absorbed, the cursor row
    \* before it, its outcome, and the class of the exception that ended it
    fetching, calls, pages, served, absorbed, before, outcome, exception,
    \* the Authorization header of each of these calls
    headers,
    \* fetcher.py, the fetcher: the token it was constructed with, its token
    \* (self.token), the access token of its API client
    \* (self.api.access_token), and how often the client has invoked its
    \* token_refresh_callback
    credentials, fetcher_token, access_token, callbacks,
    \* oauth_client.py: the token the client holds, the credential file, the
    \* auto_refresh flag of the client, the clock (time.time(), in seconds)
    token, token_file, auto_refresh, now,
    \* the last call of the OAuth client and its outcome (with the refresh
    \* token its request sent); the time, the expires_in and the tokens of
    \* the last response that gave a token; the user id of the last response
    \* that carried one
    oauth, issued, last_userid,
    \* the last call of a store method of storage.py: the table, the rows of
    \* the table before and after it, and the keys it passed that the table
    \* did not hold
    last_store,
    \* two sync invocations over one credential file: the position of each
    \* and the token its client holds; the bodies the token endpoint has
    \* answered with, in order; the invocations in the order in which they
    \* wrote the file
    clients, vendor_issued, savers,
    \* two sync invocations over one database: the position and the local
    \* variables of the fetch_measurements of each and what it wrote to the
    \* cursor; the invocations in the order in which they wrote the cursor
    fetchers, finishers

storageVars ==
    <<sync_state, writes, measurements, heart_rate, activity_summary, sleep_summary>>

apiVars ==
    <<api_request, api_stream, api_result>>

localVars ==
    <<pc, start_date, end_date, store_heart_rate, collected, heart_rates,
      last_timestamp, offset, seen_offsets, current_date>>

historyVars ==
    <<fetching, calls, pages, served, absorbed, before, outcome, exception, headers>>

clientVars ==
    <<credentials, fetcher_token, access_token, callbacks>>

oauthVars ==
    <<token, token_file, auto_refresh, now, oauth, issued, last_userid>>

portVars ==
    <<last_store>>

raceVars ==
    <<clients, vendor_issued, savers, fetchers, finishers>>

vars ==
    <<storageVars, account, enabled_data_types, apiVars, oauthVars, portVars, fa,
      localVars, historyVars, raceVars, clientVars>>

(* ---------------------------- storage.py ------------------------------ *)

\* No row of sync_state for a data type.
NoRow ==
    [status |-> "none", last_sync |-> NULL, last_data_timestamp |-> NULL]

\* get_sync_state(data_type): the row (NoRow when fetchone() gives None).
get_sync_state(data_type) ==
    sync_state[data_type]

\* update_sync_state(data_type, last_data_timestamp=None, status):
\* INSERT OR REPLACE of the whole row; a datetime is stored as its isoformat.
UpdateRow(data_type, ts, status) ==
    [status |-> status, last_sync |-> isoformat(Now),
     last_data_timestamp |-> IF ts = None THEN NULL ELSE isoformat(ts)]

\* The row kept when it holds a later timestamp than the new one.
BadReplace(old, new) ==
    IF /\ old.last_data_timestamp # NULL
       /\ new.last_data_timestamp # NULL
       /\ fromisoformat(old.last_data_timestamp) > fromisoformat(new.last_data_timestamp)
    THEN old
    ELSE new

\* INSERT OR REPLACE INTO sync_state: whatever row the table held is gone.
Replace(old, new) ==
    new

update_sync_state(data_type, ts, status) ==
    /\ sync_state' = [sync_state EXCEPT ![data_type] =
                          Replace(@, UpdateRow(data_type, ts, status))]
    /\ writes' = [writes EXCEPT ![data_type] = @ + 1]

\* UNIQUE(timestamp, measure_type)
MeasurementKey(r) ==
    <<r.timestamp, r.measure_type>>

\* UNIQUE(timestamp)
HeartRateKey(r) ==
    r.timestamp

\* date ... UNIQUE
ActivityKey(r) ==
    r.date

\* UNIQUE(start_time)
SleepKey(r) ==
    r.start_time

\* The UNIQUE key of a row of the named table.
KeyOf(name, r) ==
    CASE name = "measurements" -> MeasurementKey(r)
      [] name = "heart_rate" -> HeartRateKey(r)
      [] name = "activity_summary" -> ActivityKey(r)
      [] name = "sleep_summary" -> SleepKey(r)


\* A plain INSERT into a table without its UNIQUE constraint.
BadInsertOrReplace(name, table, row) ==
    table \cup {row}

\* INSERT OR REPLACE of one row: the row of the same UNIQUE key, if the
\* table holds one, is deleted and the new row inserted.
InsertOrReplace(name, table, row) ==
    { r \in table : KeyOf(name, r) # KeyOf(name, row) } \cup {row}

\* The loop of a store method over its list of rows.
RECURSIVE StoreAll(_, _, _)
StoreAll(name, table, rows) ==
    IF rows = <<>> THEN table
    ELSE StoreAll(name, InsertOrReplace(name, table, Head(rows)), Tail(rows))

\* The records of a set as a list, in some order.
RECURSIVE ListOf(_)
ListOf(S) ==
    IF S = {} THEN <<>>
    ELSE LET x == CHOOSE y \in S : TRUE IN <<x>> \o ListOf(S \ {x})

\* A store method whose every insert fails and is skipped.
BadUpsert(name, table, batch) ==
    table

\* A store method handed the list the fetcher collected (kept as a set:
\* no two of its records share a key and differ).
Upsert(name, table, batch) ==
    StoreAll(name, table, ListOf(batch))

\* The rows store_measurements / store_heart_rate / store_activity_summary /
\* store_sleep_summary write for one record (datetimes as isoformat text).
MeasurementRow(m) ==
    [timestamp |-> isoformat(m.timestamp), measure_type |-> m.measure_type,
     value |-> m.value]

HeartRateRow(h) ==
    [timestamp |-> isoformat(h.timestamp), heart_rate |-> h.heart_rate]

ActivityRow(a) ==
    [date |-> a.date, steps |-> a.steps]

SleepRow(x) ==
    [start_time |-> isoformat(x.start_time), quality |-> x.quality]

(* ---------------------------- fetcher.py ------------------------------ *)

\* MAX_DAYS_PER_REQUEST
MAX_DAYS_PER_REQUEST ==
    200

\* Python truthiness of a JSON value: None, a missing key, 0 and false are
\* falsy.
Truthy(v) ==
    v \notin {None, Absent, 0}

\* An exception that is no WithingsAPIError (KeyError, TypeError, ...).
KeyError ==
    [class |-> "KeyError", status_code |-> 0]

\* except Exception: every exception class here derives from Exception.
IsException(exc) ==
    exc.class # "none"

\* _get_measure_type_name(measure_type)
_get_measure_type_name(measure_type) ==
    CASE measure_type = 1 -> "weight"
      [] measure_type = 11 -> "heart_rate"
      [] OTHER -> "unknown"

\* The measurement dict built for one measure of one group:
\* real_value = measure['value'] * (10 ** measure['unit']).
Measurement(group, measure) ==
    [timestamp |-> fromtimestamp(group.date),
     measure_type |-> _get_measure_type_name(measure.type),
     value |-> measure.value * (10 ^ measure.unit),
     raw_type |-> measure.type]

\* The store_heart_rate flag ignored.
BadIsHeartRate(hr, measure_type) ==
    measure_type = 11

\* if store_heart_rate and measure_type == 11
IsHeartRate(hr, measure_type) ==
    hr /\ measure_type = 11

\* The heart-rate dict staged for a measurement.
HeartRate(m) ==
    [timestamp |-> m.timestamp, heart_rate |-> m.value, raw_type |-> m.raw_type]

\* measure_group['date'] raises KeyError on a group without 'date'.
Malformed(list) ==
    \E i \in DOMAIN list : list[i].date = Absent

MalformedSeries(list) ==
    \E i \in DOMAIN list : list[i].startdate = Absent

\* The measurements one page adds (lines 134-159).
PageMeasurements(grps) ==
    UNION { { Measurement(grps[i], grps[i].measures[j]) :
                j \in DOMAIN grps[i].measures } : i \in DOMAIN grps }

\* The heart rates one page stages (lines 161-167).
PageHeartRates(grps, hr) ==
    { HeartRate(m) : m \in { x \in PageMeasurements(grps) :
                                IsHeartRate(hr, x.raw_type) } }

\* The timestamp of the last record taken, whatever its order.
BadNewer(last, ts) ==
    TRUE

\* if not last_timestamp or timestamp > last_timestamp, measure by measure
\* over the groups of a page.
Newer(last, ts) ==
    last = None \/ ts > last

RECURSIVE PageLastTimestamp(_, _)
PageLastTimestamp(last, grps) ==
    IF grps = <<>> THEN last
    ELSE LET ts == fromtimestamp(Head(grps).date)
         IN PageLastTimestamp(
                IF Head(grps).measures # <<>> /\ Newer(last, ts) THEN ts ELSE last,
                Tail(grps))

\* The activity dict and the sleep dict built for one vendor record:
\* the date parsed by strptime, the start time by datetime.fromtimestamp.
Activity(a) ==
    [date |-> a.date, steps |-> a.steps]

SleepSession(x) ==
    [start_time |-> fromtimestamp(x.startdate), quality |-> x.sleep_score]

\* The cursor read even when a start date is given.
BadResumeFrom(start, row) ==
    IF row.status # "none" /\ row.last_data_timestamp # NULL
    THEN fromisoformat(row.last_data_timestamp)
    ELSE start

\* if not start_date and sync_state: resume from last_data_timestamp.
ResumeFrom(start, row) ==
    IF start = None /\ row.status # "none" /\ row.last_data_timestamp # NULL
    THEN fromisoformat(row.last_data_timestamp)
    ELSE start

\* The chunk end not limited by end_date.
BadChunkEnd(current, end) ==
    current + Days(MAX_DAYS_PER_REQUEST)

\* chunk_end = min(current_date + timedelta(days=MAX_DAYS_PER_REQUEST), end_date)
ChunkEnd(current, end) ==
    LET next == current + Days(MAX_DAYS_PER_REQUEST)
    IN IF next < end THEN next ELSE end

\* No except Exception / except WithingsAPIError around the fetch.
BadCatches(exc) ==
    ~IsWithingsAPIError(exc)

\* The handlers around a fetch: fetch_measurements has except
\* WithingsAPIError and except Exception, fetch_activity and fetch_sleep
\* have except Exception.
Catches(exc) ==
    IsWithingsAPIError(exc) \/ IsException(exc)

\* No except WithingsAPIError around the chunk.
BadCatchesChunk(exc) ==
    FALSE

\* except WithingsAPIError around one chunk of fetch_activity / fetch_sleep.
CatchesChunk(exc) ==
    IsWithingsAPIError(exc)


(* ------------------- fetcher.py: shared steps -------------------------- *)

\* fetch_all_data is not running.
NoFetchAll ==
    [active |-> FALSE, at |-> "none", start_date |-> None, end_date |-> None,
     data_types |-> EmptyDict, log |-> <<>>]

\* The order of fetch_all_data (lines 77-88).
NextType(type) ==
    CASE type = "measurements" -> "activity"
      [] type = "activity" -> "sleep"
      [] OTHER -> "done"

\* A fetch method ends: it returns (status success or error written to the
\* cursor) or lets an exception out (raised).  Under fetch_all_data the
\* next statement of fetch_all_data is reached, or the exception leaves it.
Return(type, status, exc) ==
    /\ pc' = "idle"
    /\ outcome' = status
    /\ exception' = exc.class
    /\ fa' = IF ~fa.active THEN fa
             ELSE [fa EXCEPT !.log = Append(@, [type |-> type, outcome |-> status,
                                               exception |-> exc.class]),
                             !.at = IF status = "raised" THEN "raised"
                                    ELSE NextType(type),
                             !.active = (status # "raised")]

\* The except clauses without their update_sync_state.
BadFail(type, exc) ==
    IF Catches(exc)
    THEN UNCHANGED <<sync_state, writes>> /\ Return(type, "error", exc)
    ELSE UNCHANGED <<sync_state, writes>> /\ Return(type, "raised", exc)

\* The except clauses of a fetch method (lines 192-197, 277-279, 387-389).
Fail(type, exc) ==
    IF Catches(exc)
    THEN update_sync_state(type, None, "error") /\ Return(type, "error", exc)
    ELSE UNCHANGED <<sync_state, writes>> /\ Return(type, "raised", exc)

\* WithingsDataFetcher(token, storage): lines 20-37.  The fetcher keeps the
\* token and creates its API client with token.access_token.
WithingsDataFetcher(tok) ==
    /\ credentials = tok
    /\ fetcher_token = tok
    /\ access_token = tok.access_token
    /\ callbacks = 0

\* _handle_token_refresh(new_token): lines 38-51, the callback the fetcher
\* hands to its API client.
_handle_token_refresh(new_token) ==
    /\ fetcher_token' = new_token
    /\ access_token' = new_token.access_token

\* api_client.py, _make_request lines 122-124:
\* headers = {'Authorization': f'Bearer {self.access_token}'}
Authorization(tok) ==
    <<"Bearer", tok>>

\* A client that has its callback called when a request ends in an
\* authentication error.
BadCallsBack(result) ==
    result.raised /\ result.exc.class = "WithingsAuthError"

\* api_client.py, _make_request (lines 82-165) and the public methods:
\* self.token_refresh_callback is stored by __init__ (line 94) and called
\* nowhere, whatever the outcome of a request.
CallsBack(result) ==
    FALSE

\* The token a callback would be handed.
Renewed(tok) ==
    [tok EXCEPT !.access_token = "a9", !.refresh_token = "r9"]

\* One call of the API client by a fetch method: the request carries the
\* access token the client holds.
Send(result) ==
    /\ headers' = Append(headers, Authorization(access_token))
    /\ UNCHANGED credentials
    /\ IF CallsBack(result)
       THEN /\ _handle_token_refresh(Renewed(fetcher_token))
            /\ callbacks' = callbacks + 1
       ELSE UNCHANGED <<fetcher_token, access_token, callbacks>>

\* The first statements of a fetch method: read the cursor, resolve the
\* start date, empty the working lists.
Enter(type, start, end, hr) ==
    /\ fetching' = type
    /\ before' = get_sync_state(type)
    /\ start_date' = start
    /\ end_date' = end
    /\ store_heart_rate' = hr
    /\ collected' = {}
    /\ heart_rates' = {}
    /\ last_timestamp' = None
    /\ offset' = None
    /\ seen_offsets' = {}
    /\ calls' = <<>>
    /\ headers' = <<>>
    /\ pages' = <<>>
    /\ served' = {}
    /\ absorbed' = FALSE

(* ------------------- fetcher.py: fetch_measurements -------------------- *)

\* Lines 104-121: up to the first iteration of the loop.
BeginMeasurements(start, end, hr) ==
    /\ Enter("measurements", ResumeFrom(start, get_sync_state("measurements")),
             end, hr)
    /\ current_date' = None
    /\ pc' = "measurements"
    /\ outcome' = "running"
    /\ exception' = "none"
    /\ UNCHANGED <<storageVars, fa>>

\* Lines 181-190: store what was collected and write the cursor.
StoreMeasurements(ms, hrs, last) ==
    IF ms # {}
    THEN /\ measurements' = Upsert("measurements", measurements,
                                   {MeasurementRow(m) : m \in ms})
         /\ heart_rate' = IF hrs # {}
                          THEN Upsert("heart_rate", heart_rate,
                                      {HeartRateRow(h) : h \in hrs})
                          ELSE heart_rate
         /\ update_sync_state("measurements", last, "success")
    ELSE /\ UNCHANGED <<measurements, heart_rate>>
         /\ update_sync_state("measurements", None, "success")

\* The except clauses storing what the earlier pages gave.
BadDiscard(ms, hrs) ==
    /\ measurements' = Upsert("measurements", measurements,
                              {MeasurementRow(m) : m \in ms})
    /\ heart_rate' = Upsert("heart_rate", heart_rate, {HeartRateRow(h) : h \in hrs})

\* Lines 192-197: the except clauses call no store method; all_measurements
\* and heart_rate_data go with the frame.
Discard(ms, hrs) ==
    UNCHANGED <<measurements, heart_rate>>

\* The offset not looked up in seen_offsets.
BadStopsEarly(next_offset, seen) ==
    next_offset = None

\* if offset is None or offset in seen_offsets
StopsEarly(next_offset, seen) ==
    next_offset = None \/ next_offset \in seen

\* The arguments of self.api.get_measurements (lines 124-129):
\* startdate_ts and enddate_ts are int(dt.timestamp()) or None.
MeasurementArgs ==
    [startdate |-> IF start_date = None THEN None ELSE timestamp(start_date),
     enddate |-> IF end_date = None THEN None ELSE timestamp(end_date),
     category |-> 1,
     offset |-> offset]

\* What a page says of the pagination: result.get('more') as a truth value
\* and, when it is true, result.get('offset').
Page(body) ==
    [more |-> Truthy(body.more),
     offset |-> IF Truthy(body.more) THEN body.offset ELSE None,
     wellformed |-> ~Malformed(body.measuregrps)]

\* An offset of 0 taken for no further page.
BadMore(result) ==
    Truthy(result.more) /\ Truthy(result.offset)

\* if not result.get('more'): break
More(result) ==
    Truthy(result.more)

\* One iteration of the while loop (lines 123-179) and, when the loop ends,
\* lines 181-197.
MeasurementsPage ==
    /\ pc = "measurements"
    /\ \E stream \in FetchStreams(MeasBodies(account)) :
         LET r    == _make_request(stream, 0, <<>>)
             grps == r.body.measuregrps
             ms   == collected \cup PageMeasurements(grps)
             hrs  == heart_rates \cup PageHeartRates(grps, store_heart_rate)
             last == PageLastTimestamp(last_timestamp, grps)
         IN /\ Send(r)
            /\ calls' = Append(calls, MeasurementArgs)
            /\ IF r.raised
               THEN /\ Fail("measurements", r.exc)
                    /\ absorbed' = IsWithingsAPIError(r.exc)
                    /\ Discard(collected, heart_rates)
                    /\ UNCHANGED <<collected, heart_rates, last_timestamp, offset,
                                   seen_offsets, pages, served>>
               ELSE /\ pages' = Append(pages, Page(r.body))
                    /\ served' = served \cup (Elems(grps) \ {BadGroup})
                    /\ UNCHANGED absorbed
                    /\ IF Malformed(grps)
                       THEN /\ Fail("measurements", KeyError)
                            /\ Discard(collected, heart_rates)
                            /\ UNCHANGED <<collected, heart_rates, last_timestamp,
                                           offset, seen_offsets>>
                       ELSE /\ collected' = ms
                            /\ heart_rates' = hrs
                            /\ last_timestamp' = last
                            /\ IF ~More(r.body)
                               THEN /\ StoreMeasurements(ms, hrs, last)
                                    /\ Return("measurements", "success", NoException)
                                    /\ UNCHANGED <<offset, seen_offsets>>
                               ELSE /\ offset' = r.body.offset
                                    /\ IF StopsEarly(r.body.offset, seen_offsets)
                                       THEN /\ StoreMeasurements(ms, hrs, last)
                                            /\ Return("measurements", "success", NoException)
                                            /\ UNCHANGED seen_offsets
                                       ELSE /\ seen_offsets' =
                                                 seen_offsets \cup {r.body.offset}
                                            /\ UNCHANGED <<storageVars, fa, pc,
                                                           outcome, exception>>
    /\ UNCHANGED <<activity_summary, sleep_summary, account,
                   enabled_data_types, apiVars, oauthVars, portVars, raceVars,
                   start_date, end_date, store_heart_rate, current_date,
                   fetching, before>>

(* --------------------- fetcher.py: fetch_activity ---------------------- *)

\* One year back instead of ten.
BadDefaultStart ==
    Now - Days(365)

\* if not start_date: start_date = datetime.now() - timedelta(days=3650)
DefaultStart ==
    Now - Days(3650)

\* Lines 267-275: store what was collected and write the cursor.
StoreActivity(all) ==
    IF all # {}
    THEN /\ activity_summary' = Upsert("activity_summary", activity_summary,
                                       {ActivityRow(a) : a \in all})
         \* last_date = max(a['date'] for a in all_activities)
         /\ update_sync_state("activity", combine(Max({a.date : a \in all})),
                              "success")
    ELSE /\ UNCHANGED activity_summary
         /\ update_sync_state("activity", None, "success")

\* Lines 209-226: up to the first iteration of the chunk loop; with an
\* empty range the loop body never runs and the method ends at once.
BeginActivity(start, end) ==
    LET resumed == ResumeFrom(start, get_sync_state("activity"))
        first   == IF resumed = None THEN DefaultStart ELSE resumed
        \* if not end_date: end_date = datetime.now()
        last    == IF end = None THEN Now ELSE end
    IN /\ Enter("activity", first, last, FALSE)
       /\ current_date' = first
       /\ IF first < last
          THEN /\ pc' = "activity"
               /\ outcome' = "running"
               /\ exception' = "none"
               /\ UNCHANGED <<storageVars, fa>>
          ELSE /\ StoreActivity({})
               /\ Return("activity", "success", NoException)
               /\ UNCHANGED <<measurements, heart_rate, sleep_summary>>

\* One iteration of the chunk loop (lines 228-265) and, when the loop
\* ends, lines 267-275.
ActivityChunk ==
    /\ pc = "activity"
    /\ \E stream \in FetchStreams(ActivityBodies(account)) :
         LET chunk_end == ChunkEnd(current_date, end_date)
             r    == _make_request(stream, 0, <<>>)
             list == r.body.activities
             skip == r.raised /\ CatchesChunk(r.exc)
             all  == IF skip THEN collected
                     ELSE collected \cup { Activity(list[i]) : i \in DOMAIN list }
         IN /\ Send(r)
            /\ calls' = Append(calls, [startdateymd |-> strftime(current_date),
                                       enddateymd |-> strftime(chunk_end)])
            /\ absorbed' = (absorbed \/ skip)
            /\ served' = IF r.raised THEN served
                          ELSE served \cup (Elems(list) \ {BadActivity, BadSeries})
            /\ IF r.raised /\ ~skip
               THEN /\ Fail("activity", r.exc)
                    /\ UNCHANGED <<collected, current_date, activity_summary>>
               ELSE IF ~r.raised /\ Malformed(list)
               THEN /\ Fail("activity", KeyError)
                    /\ UNCHANGED <<collected, current_date, activity_summary>>
               ELSE /\ collected' = all
                    /\ current_date' = chunk_end
                    /\ IF chunk_end < end_date
                       THEN UNCHANGED <<sync_state, writes, activity_summary, fa, pc,
                                        outcome, exception>>
                       ELSE /\ StoreActivity(all)
                            /\ Return("activity", "success", NoException)
    /\ UNCHANGED <<measurements, heart_rate, sleep_summary, account,
                   enabled_data_types, apiVars, oauthVars, portVars, raceVars,
                   start_date, end_date, store_heart_rate, heart_rates,
                   last_timestamp, offset, seen_offsets, pages, fetching, before>>

(* ----------------------- fetcher.py: fetch_sleep ----------------------- *)

\* Lines 377-385: store what was collected and write the cursor.
StoreSleep(all) ==
    IF all # {}
    THEN /\ sleep_summary' = Upsert("sleep_summary", sleep_summary,
                                    {SleepRow(x) : x \in all})
         \* last_timestamp = max(s['start_time'] for s in all_sleep_sessions)
         /\ update_sync_state("sleep", Max({x.start_time : x \in all}), "success")
    ELSE /\ UNCHANGED sleep_summary
         /\ update_sync_state("sleep", None, "success")

\* Lines 291-308: up to the first iteration of the chunk loop; with an
\* empty range the loop body never runs and the method ends at once.
BeginSleep(start, end) ==
    LET resumed == ResumeFrom(start, get_sync_state("sleep"))
        first   == IF resumed = None THEN DefaultStart ELSE resumed
        \* if not end_date: end_date = datetime.now()
        last    == IF end = None THEN Now ELSE end
    IN /\ Enter("sleep", first, last, FALSE)
       /\ current_date' = first
       /\ IF first < last
          THEN /\ pc' = "sleep"
               /\ outcome' = "running"
               /\ exception' = "none"
               /\ UNCHANGED <<storageVars, fa>>
          ELSE /\ StoreSleep({})
               /\ Return("sleep", "success", NoException)
               /\ UNCHANGED <<measurements, heart_rate, activity_summary>>

\* One iteration of the chunk loop (lines 331-375) and, when the loop
\* ends, lines 377-385.
SleepChunk ==
    /\ pc = "sleep"
    /\ \E stream \in FetchStreams(SleepBodies(account)) :
         LET chunk_end == ChunkEnd(current_date, end_date)
             r    == _make_request(stream, 0, <<>>)
             list == r.body.series
             skip == r.raised /\ CatchesChunk(r.exc)
             all  == IF skip THEN collected
                     ELSE collected \cup { SleepSession(list[i]) : i \in DOMAIN list }
         IN /\ Send(r)
            /\ calls' = Append(calls, [startdateymd |-> strftime(current_date),
                                       enddateymd |-> strftime(chunk_end)])
            /\ absorbed' = (absorbed \/ skip)
            /\ served' = IF r.raised THEN served
                          ELSE served \cup (Elems(list) \ {BadActivity, BadSeries})
            /\ IF r.raised /\ ~skip
               THEN /\ Fail("sleep", r.exc)
                    /\ UNCHANGED <<collected, current_date, sleep_summary>>
               ELSE IF ~r.raised /\ MalformedSeries(list)
               THEN /\ Fail("sleep", KeyError)
                    /\ UNCHANGED <<collected, current_date, sleep_summary>>
               ELSE /\ collected' = all
                    /\ current_date' = chunk_end
                    /\ IF chunk_end < end_date
                       THEN UNCHANGED <<sync_state, writes, sleep_summary, fa, pc,
                                        outcome, exception>>
                       ELSE /\ StoreSleep(all)
                            /\ Return("sleep", "success", NoException)
    /\ UNCHANGED <<measurements, heart_rate, activity_summary, account,
                   enabled_data_types, apiVars, oauthVars, portVars, raceVars,
                   start_date, end_date, store_heart_rate, heart_rates,
                   last_timestamp, offset, seen_offsets, pages, fetching, before>>

(* --------------------- fetcher.py: fetch_all_data ---------------------- *)

\* Explicit start and end dates a caller passes (None: not given).
StartChoices ==
    {None, Now - Days(450)}

EndChoices ==
    {None, Now - Days(300)}

\* A missing key read as True.
BadGet(dict, key, default) ==
    IF key \in DOMAIN dict THEN dict[key] ELSE TRUE

\* data_types.get(key, default)
Get(dict, key, default) ==
    IF key \in DOMAIN dict THEN dict[key] ELSE default

\* if not data_types: every type, heart rate included.
DefaultDataTypes ==
    [measurements |-> TRUE, activity |-> TRUE, sleep |-> TRUE, heart_rate |-> TRUE]

\* The frame of a fetch method that has returned is gone once its caller
\* moves on.
Forget ==
    /\ pc' = "idle"
    /\ start_date' = None
    /\ end_date' = None
    /\ store_heart_rate' = FALSE
    /\ collected' = {}
    /\ heart_rates' = {}
    /\ last_timestamp' = None
    /\ offset' = None
    /\ seen_offsets' = {}
    /\ current_date' = None
    /\ fetching' = "none"
    /\ calls' = <<>>
    /\ headers' = <<>>
    /\ pages' = <<>>
    /\ served' = {}
    /\ absorbed' = FALSE
    /\ before' = NoRow
    /\ outcome' = "none"
    /\ exception' = "none"

\* Lines 63-75: fetch_all_data(start_date, end_date, data_types) is entered;
\* the caller passes the enabled data types of its configuration.
FetchAllData ==
    /\ pc = "idle" /\ ~fa.active
    /\ \E start \in StartChoices, end \in EndChoices :
         fa' = [active |-> TRUE, at |-> "measurements",
                start_date |-> start,
                end_date |-> IF end = None THEN Now ELSE end,
                data_types |-> IF DOMAIN enabled_data_types = {}
                               THEN DefaultDataTypes ELSE enabled_data_types,
                log |-> <<>>]
    /\ Forget
    /\ writes' = [t \in DataTypes |-> 0]
    /\ UNCHANGED <<sync_state, measurements, heart_rate, activity_summary, sleep_summary>>
    /\ UNCHANGED <<account, enabled_data_types, apiVars, oauthVars, portVars, raceVars, clientVars>>

\* Lines 77-82.
FetchAllMeasurements ==
    /\ pc = "idle" /\ fa.active /\ fa.at = "measurements"
    /\ IF Get(fa.data_types, "measurements", FALSE)
       THEN BeginMeasurements(fa.start_date, fa.end_date,
                              Get(fa.data_types, "heart_rate", TRUE))
       ELSE /\ fa' = [fa EXCEPT !.at = NextType("measurements")]
            /\ Forget
            /\ UNCHANGED storageVars
    /\ UNCHANGED <<account, enabled_data_types, apiVars, oauthVars, portVars, raceVars, clientVars>>

\* Lines 84-85.
FetchAllActivity ==
    /\ pc = "idle" /\ fa.active /\ fa.at = "activity"
    /\ IF Get(fa.data_types, "activity", FALSE)
       THEN BeginActivity(fa.start_date, fa.end_date)
       ELSE /\ fa' = [fa EXCEPT !.at = NextType("activity")]
            /\ Forget
            /\ UNCHANGED storageVars
    /\ UNCHANGED <<account, enabled_data_types, apiVars, oauthVars, portVars, raceVars, clientVars>>

\* Lines 87-88.
FetchAllSleep ==
    /\ pc = "idle" /\ fa.active /\ fa.at = "sleep"
    /\ IF Get(fa.data_types, "sleep", FALSE)
       THEN BeginSleep(fa.start_date, fa.end_date)
       ELSE /\ fa' = [fa EXCEPT !.at = NextType("sleep")]
            /\ Forget
            /\ UNCHANGED storageVars
    /\ UNCHANGED <<account, enabled_data_types, apiVars, oauthVars, portVars, raceVars, clientVars>>

\* Line 90: fetch_all_data returns.
FetchAllReturn ==
    /\ pc = "idle" /\ fa.active /\ fa.at = "done"
    /\ fa' = [fa EXCEPT !.active = FALSE, !.at = "returned"]
    /\ Forget
    /\ UNCHANGED <<storageVars, account, enabled_data_types, apiVars, oauthVars, portVars,
                   raceVars, clientVars>>

(* --------------------------- oauth_client.py -------------------------- *)

\* Largest value of the clock.
MaxClock ==
    2

OAUTH_TOKEN_URL ==
    "https://wbsapi.withings.net/v2/oauth2"

\* self.token = None
NoToken ==
    [k \in {} |-> None]

\* No credential file at token_storage_path.
NoFile ==
    [k \in {} |-> None]

\* WithingsOAuthError(status_code, message)
WithingsOAuthError(status_code, message) ==
    [class |-> "WithingsOAuthError", status_code |-> status_code, message |-> message]

\* What requests.post and response.raise_for_status() raise.
ConnectionError ==
    [class |-> "ConnectionError", status_code |-> 0, message |-> ""]

HTTPError(http) ==
    [class |-> "HTTPError", status_code |-> http, message |-> ""]

NoOAuthError ==
    [class |-> "none", status_code |-> 0, message |-> ""]

\* A dict with the key or without it.
Optional(key, values) ==
    {[k \in {} |-> None]} \cup {key :> v : v \in values}

\* The bodies of the token endpoint's status-0 answers: the tokens, and
\* possibly expires_in, a token_expiry of the vendor's own, and a userid;
\* and one body with another refresh token.
TokenBodies ==
    { [access_token |-> t[1], refresh_token |-> t[2]] @@ e @@ x @@ u :
        t \in {<<"a1", "r1">>, <<"a2", "">>},
        e \in Optional("expires_in", {300, 301}),
        x \in Optional("token_expiry", {9}),
        u \in Optional("userid", {1, 2}) }
    \cup {[access_token |-> "a3", refresh_token |-> "r3", expires_in |-> 300]}

\* The envelopes with a status other than 0, or with none.
ErrorEnvelopes ==
    { [status |-> 503, error |-> "invalid_grant"], [status |-> 503],
      [error |-> "invalid_grant"] }

\* The answers of the token endpoint: the connection fails (http is None);
\* an HTTP status with a JSON envelope; an HTTP status with a body that is
\* not JSON.
TokenResponses ==
    {[http |-> None, json |-> FALSE, envelope |-> [k \in {} |-> None]]}
    \cup {[http |-> 200, json |-> TRUE, envelope |-> [status |-> 0, body |-> b]] :
            b \in TokenBodies}
    \cup {[http |-> h, json |-> TRUE, envelope |-> e] :
            h \in {200, 500}, e \in ErrorEnvelopes}
    \cup {[http |-> h, json |-> FALSE, envelope |-> [k \in {} |-> None]] :
            h \in {200, 500}}

\* OAuthToken.from_dict(data), called at the given time.
from_dict(data, time) ==
    [access_token |-> data.access_token,
     refresh_token |-> data.refresh_token,
     token_type |-> Get(data, "token_type", "Bearer"),
     expires_in |-> Get(data, "expires_in", 10800),
     token_expiry |-> Get(data, "token_expiry", time + Get(data, "expires_in", 10800)),
     userid |-> Get(data, "userid", None),
     scope |-> Get(data, "scope", None)]

\* The token file without its token_expiry.
BadTo_dict(tok) ==
    [access_token |-> tok.access_token,
     refresh_token |-> tok.refresh_token,
     token_type |-> tok.token_type,
     expires_in |-> tok.expires_in,
     userid |-> tok.userid,
     scope |-> tok.scope]

\* OAuthToken.to_dict(), as json.dump writes it and json.load reads it back.
to_dict(tok) ==
    [access_token |-> tok.access_token,
     refresh_token |-> tok.refresh_token,
     token_type |-> tok.token_type,
     expires_in |-> tok.expires_in,
     token_expiry |-> tok.token_expiry,
     userid |-> tok.userid,
     scope |-> tok.scope]

\* Expired only after token_expiry - buffer_seconds.
BadIs_expired(tok, time) ==
    time > tok.token_expiry - 300

\* OAuthToken.is_expired(buffer_seconds=300)
is_expired(tok, time) ==
    time >= tok.token_expiry - 300

\* A token_expiry of the vendor's own kept.
BadWithExpiry(body, time) ==
    IF "token_expiry" \in DOMAIN body THEN body
    ELSE body @@ ("token_expiry" :> (time + Get(body, "expires_in", 10800)))

\* body['token_expiry'] = int(time.time()) + body.get('expires_in', 10800)
WithExpiry(body, time) ==
    [k \in DOMAIN body \cup {"token_expiry"} |->
        IF k = "token_expiry" THEN time + Get(body, "expires_in", 10800) ELSE body[k]]

\* The user id of the response always taken.
BadPreserveUserid(tok, old_userid) ==
    tok

\* if not self.token.userid: self.token.userid = old_userid
PreserveUserid(tok, old_userid) ==
    IF Truthy(tok.userid) THEN tok ELSE [tok EXCEPT !.userid = old_userid]

\* requests.post(OAUTH_TOKEN_URL, ...) up to the envelope check: what is
\* raised, or the body of the envelope.
RequestToken(response, default_error) ==
    LET Raise(e) == [raised |-> TRUE, exc |-> e, body |-> [k \in {} |-> None]]
    IN IF response.http = None THEN Raise(ConnectionError)
       ELSE IF response.http >= 400 THEN Raise(HTTPError(response.http))
       ELSE IF ~response.json
       THEN Raise(WithingsOAuthError(response.http,
                                     "Non-JSON response from token endpoint"))
       ELSE IF Get(response.envelope, "status", None) # 0
       THEN Raise(WithingsOAuthError(Get(response.envelope, "status", -1),
                                     Get(response.envelope, "error", default_error)))
       ELSE [raised |-> FALSE, exc |-> NoOAuthError, body |-> response.envelope.body]

\* No response has given a token.
NotIssued ==
    [T |-> None, E |-> Absent, X |-> Absent, U |-> Absent, A |-> "", R |-> ""]

\* The record of a call of the OAuth client: the method, the number of
\* requests it sent to the token endpoint, the answer to the request, what
\* it raised, the token it returned.
NoCall ==
    [op |-> "none", requests |-> 0, http |-> None, json |-> FALSE,
     raised |-> FALSE, exc |-> NoOAuthError, returned |-> NoToken, sent |-> ""]

Raised(op, requests, response, exc) ==
    [op |-> op, requests |-> requests, http |-> response.http, json |-> response.json,
     raised |-> TRUE, exc |-> exc, returned |-> NoToken, sent |-> ""]

Returned(op, requests, response, tok) ==
    [op |-> op, requests |-> requests, http |-> response.http, json |-> response.json,
     raised |-> FALSE, exc |-> NoOAuthError, returned |-> tok, sent |-> ""]

NoResponse ==
    [http |-> None, json |-> FALSE, envelope |-> [k \in {} |-> None]]

\* open(self.token_storage_path, 'w'): the file exists and is empty.
Truncated ==
    [text |-> ""]

\* A file that already has content is left as it is.
Bad_save_token(tok) ==
    token_file' = IF token_file \in {NoFile, Truncated} THEN to_dict(tok) ELSE token_file

\* _save_token: json.dump(self.token.to_dict(), f)
_save_token(tok) ==
    token_file' = to_dict(tok)

\* Contents of the credential file that give no token: text that is not
\* JSON, and a JSON object without the keys from_dict indexes.
Unparseable ==
    { [text |-> "<html>"], [access_token |-> "a1"] }

\* json.load(f) and OAuthToken.from_dict(data) go through.
Parses(file) ==
    {"access_token", "refresh_token"} \subseteq DOMAIN file

\* What they raise otherwise.
LoadError(file) ==
    IF "text" \in DOMAIN file
    THEN [class |-> "JSONDecodeError", status_code |-> 0, message |-> ""]
    ELSE [class |-> "KeyError", status_code |-> 0, message |-> "refresh_token"]

\* No handler around the load.
BadCatchesLoad(exc) ==
    FALSE

\* except Exception as e: logger.error(...)
CatchesLoad(exc) ==
    IsException(exc)

\* _load_token: the token of the file, if the file exists and parses.
_load_token(file, time) ==
    IF file = NoFile \/ ~Parses(file) THEN NoToken ELSE from_dict(file, time)

\* The credentials dropped when the request fails.
BadUntouched ==
    token' = NoToken /\ token_file' = NoFile

\* The raise statements of lines 190-216 and 249-271 come before self.token
\* is assigned and _save_token is called.
Untouched ==
    UNCHANGED <<token, token_file>>

\* Lines 163-222.
exchange_code_for_token ==
    /\ \E response \in TokenResponses :
         LET r == RequestToken(response, "Unknown error")
             tok == from_dict(WithExpiry(r.body, now), now)
         IN IF r.raised
            THEN /\ oauth' = Raised("exchange_code_for_token", 1, response, r.exc)
                 /\ Untouched
                 /\ UNCHANGED <<issued, last_userid>>
            ELSE /\ token' = tok
                 /\ _save_token(tok)
                 /\ oauth' = Returned("exchange_code_for_token", 1, response, tok)
                 /\ issued' = [T |-> now, E |-> Get(r.body, "expires_in", Absent),
                              X |-> Get(r.body, "token_expiry", Absent),
                              U |-> Get(r.body, "userid", Absent),
                              A |-> r.body.access_token, R |-> r.body.refresh_token]
                 /\ last_userid' = Get(r.body, "userid", None)
    /\ UNCHANGED <<auto_refresh, now>>
    /\ UNCHANGED <<storageVars, account, enabled_data_types, apiVars, fa, localVars,
                   historyVars, portVars, raceVars, clientVars>>

\* The guard without its test for a token.
BadNoRefreshToken(tok) ==
    tok # NoToken /\ tok.refresh_token = ""

\* if not self.token or not self.token.refresh_token
NoRefreshToken(tok) ==
    tok = NoToken \/ tok.refresh_token = ""

\* The access token sent in place of the refresh token.
BadRefreshTokenSent(tok) ==
    tok.access_token

\* Line 241: 'refresh_token': self.token.refresh_token
RefreshTokenSent(tok) ==
    IF tok = NoToken THEN "" ELSE tok.refresh_token

\* Lines 224-285, called as op (by the user, or by get_valid_token).
Refresh(op) ==
    IF NoRefreshToken(token)
    THEN /\ oauth' = Raised(op, 0, NoResponse,
                            WithingsOAuthError(0, "No refresh token available"))
         /\ UNCHANGED <<token, token_file, issued, last_userid>>
    ELSE \E response \in TokenResponses :
           LET r == RequestToken(response, "Token refresh failed")
               tok == PreserveUserid(from_dict(WithExpiry(r.body, now), now),
                                     token.userid)
           IN IF r.raised
              THEN /\ oauth' = [Raised(op, 1, response, r.exc) EXCEPT
                                    !.sent = RefreshTokenSent(token)]
                   /\ Untouched
                   /\ UNCHANGED <<issued, last_userid>>
              ELSE /\ token' = tok
                   /\ _save_token(tok)
                   /\ oauth' = [Returned(op, 1, response, tok) EXCEPT
                                    !.sent = RefreshTokenSent(token)]
                   /\ issued' = [T |-> now, E |-> Get(r.body, "expires_in", Absent),
                              X |-> Get(r.body, "token_expiry", Absent),
                              U |-> Get(r.body, "userid", Absent),
                              A |-> r.body.access_token, R |-> r.body.refresh_token]
                   /\ last_userid' = Get(r.body, "userid", last_userid)

refresh_access_token ==
    /\ Refresh("refresh_access_token")
    /\ UNCHANGED <<auto_refresh, now>>
    /\ UNCHANGED <<storageVars, account, enabled_data_types, apiVars, fa, localVars,
                   historyVars, portVars, raceVars, clientVars>>

\* The held token returned whatever its expiry.
BadShouldRefresh(tok, time, flag) ==
    FALSE

\* if self.token.is_expired() and self.auto_refresh
ShouldRefresh(tok, time, flag) ==
    is_expired(tok, time) /\ flag

\* Lines 287-303.
get_valid_token ==
    /\ IF token = NoToken
       THEN /\ oauth' = Raised("get_valid_token", 0, NoResponse,
                               WithingsOAuthError(0, "Not authenticated. Run setup first."))
            /\ UNCHANGED <<token, token_file, issued, last_userid>>
       ELSE IF ShouldRefresh(token, now, auto_refresh)
       THEN Refresh("get_valid_token")
       ELSE /\ oauth' = Returned("get_valid_token", 0, NoResponse, token)
            /\ UNCHANGED <<token, token_file, issued, last_userid>>
    /\ UNCHANGED <<auto_refresh, now>>
    /\ UNCHANGED <<storageVars, account, enabled_data_types, apiVars, fa, localVars,
                   historyVars, portVars, raceVars, clientVars>>

\* Lines 115-139: another client is constructed over the same file.
WithingsOAuthClient ==
    /\ \E flag \in BOOLEAN : auto_refresh' = flag
    /\ IF token_file # NoFile /\ ~Parses(token_file)
          /\ ~CatchesLoad(LoadError(token_file))
       THEN /\ token' = NoToken
            /\ oauth' = Raised("__init__", 0, NoResponse, LoadError(token_file))
       ELSE /\ token' = _load_token(token_file, now)
            /\ oauth' = [NoCall EXCEPT !.op = "__init__"]
    /\ UNCHANGED <<token_file, now, issued, last_userid>>
    /\ UNCHANGED <<storageVars, account, enabled_data_types, apiVars, fa, localVars,
                   historyVars, portVars, raceVars, clientVars>>

\* The file left without its unlink.
BadUnlink(file) ==
    file

\* if self.credentials_file.exists(): self.credentials_file.unlink()
Unlink(file) ==
    NoFile

\* auth.py, WithingsAuthManager.clear_credentials (lines 174-179).
clear_credentials ==
    /\ token_file' = Unlink(token_file)
    /\ token' = NoToken
    /\ oauth' = [NoCall EXCEPT !.op = "clear_credentials"]
    /\ issued' = [NotIssued EXCEPT !.T = issued.T]
    /\ last_userid' = None
    /\ UNCHANGED <<auto_refresh, now>>
    /\ UNCHANGED <<storageVars, account, enabled_data_types, apiVars, fa, localVars,
                   historyVars, portVars, raceVars, clientVars>>

\* While no client holds a token, something else writes the credential
\* file: it no longer parses.
Damage ==
    /\ token = NoToken
    /\ \E content \in Unparseable : token_file' = content
    /\ oauth' = [NoCall EXCEPT !.op = "damage"]
    /\ UNCHANGED <<token, auto_refresh, now, issued, last_userid>>
    /\ UNCHANGED <<storageVars, account, enabled_data_types, apiVars, fa, localVars,
                   historyVars, portVars, raceVars, clientVars>>

\* A second passes.
Tick ==
    /\ now < MaxClock
    /\ now' = now + 1
    /\ oauth' = NoCall
    /\ UNCHANGED <<token, token_file, auto_refresh, issued, last_userid>>
    /\ UNCHANGED <<storageVars, account, enabled_data_types, apiVars, fa, localVars,
                   historyVars, portVars, raceVars, clientVars>>

(* ------------------------------ the system ----------------------------- *)

\* An account without data.
EmptyAccount ==
    [measuregrps |-> {}, activities |-> {}, series |-> {}]

\* The installations considered: the enabled data types of the
\* configuration (a dict that may lack keys, or an empty one) and the data
\* the account holds.
Scenarios ==
    { <<[measurements |-> TRUE], Accounts[1]>>,
      <<[measurements |-> TRUE, activity |-> FALSE, sleep |-> FALSE,
         heart_rate |-> FALSE], Accounts[1]>>,
      <<[activity |-> TRUE], Accounts[2]>>,
      <<[sleep |-> TRUE], Accounts[3]>>,
      <<EmptyDict, EmptyAccount>>,
      <<[measurements |-> TRUE, activity |-> FALSE, sleep |-> TRUE,
         heart_rate |-> TRUE], EmptyAccount>> }

NoResult ==
    [raised |-> FALSE, exc |-> NoException, body |-> EmptyDict, trace |-> <<>>]

NoStore ==
    [name |-> "none", before |-> 0, after |-> 0, new |-> 0]

InitStorage ==
    /\ sync_state = [t \in DataTypes |-> NoRow]
    /\ writes = [t \in DataTypes |-> 0]
    /\ last_store = NoStore
    /\ measurements = {}
    /\ heart_rate = {}
    /\ activity_summary = {}
    /\ sleep_summary = {}

InitFetcher ==
    /\ fa = NoFetchAll
    /\ pc = "idle"
    /\ start_date = None
    /\ end_date = None
    /\ store_heart_rate = FALSE
    /\ collected = {}
    /\ heart_rates = {}
    /\ last_timestamp = None
    /\ offset = None
    /\ seen_offsets = {}
    /\ current_date = None
    /\ fetching = "none"
    /\ calls = <<>>
    /\ headers = <<>>
    /\ pages = <<>>
    /\ served = {}
    /\ absorbed = FALSE
    /\ before = NoRow
    /\ outcome = "none"
    /\ exception = "none"

InitApi ==
    /\ api_request = [method |-> "none", endpoint |-> "none", action |-> "none"]
    /\ api_stream = [i \in 1..MaxAttempts |-> TransportFailure]
    /\ api_result = NoResult

\* A new database, a fetcher just constructed, a configuration and an
\* account at the vendor.
InitOAuth ==
    /\ token = NoToken
    /\ token_file = NoFile
    /\ auto_refresh = TRUE
    /\ now = 0
    /\ oauth = NoCall
    /\ issued = NotIssued
    /\ last_userid = None

\* Neither invocation has begun.
Invocations ==
    {1, 2}

NotWritten ==
    [ts |-> None, status |-> "none"]

NoFrame ==
    [pc |-> "start", start_date |-> None, collected |-> {}, heart_rates |-> {},
     last_timestamp |-> None, offset |-> None, seen_offsets |-> {},
     wrote |-> NotWritten]

InitRace ==
    /\ clients = [p \in Invocations |-> [pc |-> "start", token |-> NoToken]]
    /\ vendor_issued = <<>>
    /\ savers = <<>>
    /\ fetchers = [q \in Invocations |-> NoFrame]
    /\ finishers = <<>>

\* The token get_credentials has handed to a sync command at time 0: the
\* given access token, expiring after the given number of seconds.
Credentials(access, lifetime) ==
    from_dict(WithExpiry([access_token |-> access, refresh_token |-> "r1",
                          userid |-> 1, expires_in |-> lifetime], 0), 0)

\* cli.py line 154: fetcher = WithingsDataFetcher(credentials, storage)
InitClient ==
    WithingsDataFetcher(Credentials("a1", 10800))

Init ==
    /\ InitStorage
    /\ InitFetcher
    /\ InitClient
    /\ InitApi
    /\ InitOAuth
    /\ InitRace
    /\ \E sc \in Scenarios : enabled_data_types = sc[1] /\ account = sc[2]

Next ==
    \/ FetchAllData
    \/ FetchAllMeasurements
    \/ MeasurementsPage
    \/ FetchAllActivity
    \/ ActivityChunk
    \/ FetchAllSleep
    \/ SleepChunk
    \/ FetchAllReturn

Spec ==
    Init /\ [][Next]_vars

\* The statements of a running fetch_all_data.  The program is sequential:
\* while a run is under way exactly one of them is the next statement, and
\* it is executed once the HTTP request it waits for has returned a
\* response or a failure (requests.get with timeout=REQUEST_TIMEOUT).
RunStep ==
    \/ FetchAllMeasurements
    \/ MeasurementsPage
    \/ FetchAllActivity
    \/ ActivityChunk
    \/ FetchAllSleep
    \/ SleepChunk
    \/ FetchAllReturn

\* All data types enabled by default, no data in the account: the pages
\* and chunks the vendor answers with still vary in their pagination.
InitLive ==
    /\ Init
    /\ enabled_data_types = EmptyDict
    /\ account = EmptyAccount

\* The fetcher under the assumption that a run is not held up for ever;
\* whether another run is started is left open.
SpecLive ==
    InitLive /\ [][Next]_vars /\ WF_vars(RunStep)

(***************************************************************************)
(* The API client called on its own: each public method builds its        *)
(* request and hands it to _make_request; the vendor's answers to the     *)
(* request and to its retries are api_stream.                             *)
(***************************************************************************)
DeviceBodies ==
    { [devices |-> <<>>], [devices |-> <<[type |-> "Scale"]>>] }

ApiStreams(bodies) ==
    Streams(bodies, VendorStatuses, 0..MaxAttempts)

Request(method, endpoint, action, stream) ==
    /\ api_request' = [method |-> method, endpoint |-> endpoint, action |-> action]
    /\ api_stream' = stream
    /\ api_result' = _make_request(stream, 0, <<>>)
    /\ UNCHANGED <<storageVars, account, enabled_data_types, fa, localVars, historyVars,
                   oauthVars, portVars, raceVars, clientVars>>

get_measurements ==
    \E stream \in ApiStreams(MeasBodies(account)) :
        Request("GET", MEASURE_ENDPOINT, "getmeas", stream)

get_activity ==
    \E stream \in ApiStreams(ActivityBodies(account)) :
        Request("GET", MEASURE_V2_ENDPOINT, "getactivity", stream)

get_sleep_summary ==
    \E stream \in ApiStreams(SleepBodies(account)) :
        Request("POST", SLEEP_V2_ENDPOINT, "getsummary", stream)

get_user_devices ==
    \E stream \in ApiStreams(DeviceBodies) :
        Request("GET", USER_ENDPOINT, "getdevice", stream)

NextApi ==
    \/ get_measurements
    \/ get_activity
    \/ get_sleep_summary
    \/ get_user_devices

SpecApi ==
    Init /\ [][NextApi]_vars

(***************************************************************************)
(* The OAuth client called on its own.                                     *)
(***************************************************************************)
NextOAuth ==
    \/ exchange_code_for_token
    \/ refresh_access_token
    \/ get_valid_token
    \/ WithingsOAuthClient
    \/ clear_credentials
    \/ Damage
    \/ Tick

\* No fetch takes part: the installation without data types and data.
InitOAuthClient ==
    /\ Init
    /\ account = EmptyAccount
    /\ enabled_data_types = EmptyDict

SpecOAuth ==
    InitOAuthClient /\ [][NextOAuth]_vars

(***************************************************************************)
(* The storage called on its own: each store method is handed a list of    *)
(* record dicts, of which some share their natural key and differ in       *)
(* their values.                                                            *)
(***************************************************************************)
MaxBatch ==
    2

Batches(S) ==
    UNION { [1..n -> S] : n \in 0..MaxBatch }

MeasurementDicts ==
    { [timestamp |-> fromtimestamp(OldTs), measure_type |-> "weight", value |-> 70],
      [timestamp |-> fromtimestamp(OldTs), measure_type |-> "weight", value |-> 71],
      [timestamp |-> fromtimestamp(OldTs), measure_type |-> "heart_rate", value |-> 60],
      [timestamp |-> fromtimestamp(NewTs), measure_type |-> "weight", value |-> 70] }

HeartRateDicts ==
    { [timestamp |-> fromtimestamp(OldTs), heart_rate |-> 60],
      [timestamp |-> fromtimestamp(OldTs), heart_rate |-> 61] }

ActivityDicts ==
    { [date |-> Today - 1, steps |-> 1],
      [date |-> Today - 1, steps |-> 2],
      [date |-> Today, steps |-> 1] }

SleepDicts ==
    { [start_time |-> fromtimestamp(NewTs), quality |-> 1],
      [start_time |-> fromtimestamp(NewTs), quality |-> 2] }

\* The UNIQUE keys of the rows of a table, and of a list of rows.
Keys(name, table) ==
    { KeyOf(name, r) : r \in table }

KeysOf(name, rows) ==
    { KeyOf(name, rows[i]) : i \in DOMAIN rows }

Stored(name, table, rows) ==
    last_store' = [name |-> name,
                   before |-> Cardinality(table),
                   after |-> Cardinality(StoreAll(name, table, rows)),
                   new |-> Cardinality(KeysOf(name, rows) \ Keys(name, table))]

store_measurements ==
    /\ \E list \in Batches(MeasurementDicts) :
         LET rows == [i \in DOMAIN list |-> MeasurementRow(list[i])]
         IN /\ measurements' = StoreAll("measurements", measurements, rows)
            /\ Stored("measurements", measurements, rows)
    /\ UNCHANGED <<sync_state, writes, heart_rate, activity_summary, sleep_summary>>
    /\ UNCHANGED <<account, enabled_data_types, apiVars, oauthVars, raceVars, clientVars, fa,
                   localVars, historyVars>>

store_activity_summary ==
    /\ \E list \in Batches(ActivityDicts) :
         LET rows == [i \in DOMAIN list |-> ActivityRow(list[i])]
         IN /\ activity_summary' = StoreAll("activity_summary", activity_summary, rows)
            /\ Stored("activity_summary", activity_summary, rows)
    /\ UNCHANGED <<sync_state, writes, measurements, heart_rate, sleep_summary>>
    /\ UNCHANGED <<account, enabled_data_types, apiVars, oauthVars, raceVars, clientVars, fa,
                   localVars, historyVars>>

store_sleep_summary ==
    /\ \E list \in Batches(SleepDicts) :
         LET rows == [i \in DOMAIN list |-> SleepRow(list[i])]
         IN /\ sleep_summary' = StoreAll("sleep_summary", sleep_summary, rows)
            /\ Stored("sleep_summary", sleep_summary, rows)
    /\ UNCHANGED <<sync_state, writes, measurements, heart_rate, activity_summary>>
    /\ UNCHANGED <<account, enabled_data_types, apiVars, oauthVars, raceVars, clientVars, fa,
                   localVars, historyVars>>

\* HealthDataStorage.store_heart_rate.
store_heart_rate_list ==
    /\ \E list \in Batches(HeartRateDicts) :
         LET rows == [i \in DOMAIN list |-> HeartRateRow(list[i])]
         IN /\ heart_rate' = StoreAll("heart_rate", heart_rate, rows)
            /\ Stored("heart_rate", heart_rate, rows)
    /\ UNCHANGED <<sync_state, writes, measurements, activity_summary, sleep_summary>>
    /\ UNCHANGED <<account, enabled_data_types, apiVars, oauthVars, raceVars, clientVars, fa,
                   localVars, historyVars>>

NextStorage ==
    \/ store_measurements
    \/ store_activity_summary
    \/ store_sleep_summary
    \/ store_heart_rate_list

\* No fetch takes part: the installation without data types and data.
InitStorageAlone ==
    /\ Init
    /\ account = EmptyAccount
    /\ enabled_data_types = EmptyDict

SpecStorage ==
    InitStorageAlone /\ [][NextStorage]_vars

(***************************************************************************)
(* Two sync invocations over one credential file.  Each constructs a       *)
(* client of its own over the file (auth.py constructs it with             *)
(* auto_refresh on) and asks it for a valid token; a client that refreshes *)
(* opens the file for writing and dumps its token into it.                 *)
(***************************************************************************)
\* The tokens an earlier setup can have left in the file, at time 0.
SetupTokens ==
    { from_dict(WithExpiry([access_token |-> "a0", refresh_token |-> "r0",
                            userid |-> 1, expires_in |-> e], 0), 0) :
        e \in {300, 301} }

\* The access and refresh tokens the token endpoint issues, in order.
VendorTokens ==
    << <<"a1", "r1">>, <<"a2", "r2">> >>

\* The answers to the refresh request that is the n-th to be granted, and
\* the answers that refuse it.
RaceResponses(n) ==
    {[http |-> 200, json |-> TRUE,
      envelope |-> [status |-> 0,
                    body |-> [access_token |-> VendorTokens[n][1],
                              refresh_token |-> VendorTokens[n][2]] @@ e @@ u]] :
        e \in Optional("expires_in", {301}), u \in Optional("userid", {1})}
    \cup {r \in TokenResponses : RequestToken(r, "Token refresh failed").raised}

At(p, pos, tok) ==
    clients' = [clients EXCEPT ![p] = [pc |-> pos, token |-> tok]]

\* auth.py lines 77-83, oauth_client.py lines 115-139.
Construct(p) ==
    /\ clients[p].pc = "start"
    /\ At(p, "constructed", _load_token(token_file, now))
    /\ UNCHANGED <<token_file, vendor_issued, savers>>

\* get_valid_token (lines 287-303) and the refresh_access_token it calls,
\* up to its call of _save_token (lines 224-280).
ValidToken(p) ==
    /\ clients[p].pc = "constructed"
    /\ LET tok == clients[p].token
       IN IF tok = NoToken
          THEN At(p, "raised", tok) /\ UNCHANGED vendor_issued
          ELSE IF ~is_expired(tok, now)
          THEN At(p, "returned", tok) /\ UNCHANGED vendor_issued
          ELSE IF NoRefreshToken(tok)
          THEN At(p, "raised", tok) /\ UNCHANGED vendor_issued
          ELSE \E response \in RaceResponses(Len(vendor_issued) + 1) :
                 LET r == RequestToken(response, "Token refresh failed")
                 IN IF r.raised
                    THEN At(p, "raised", tok) /\ UNCHANGED vendor_issued
                    ELSE /\ At(p, "saving",
                               PreserveUserid(from_dict(WithExpiry(r.body, now), now),
                                              tok.userid))
                         /\ vendor_issued' = Append(vendor_issued, r.body)
    /\ UNCHANGED <<token_file, savers>>

\* _save_token, line 323: with open(self.token_storage_path, 'w') as f
Open(p) ==
    /\ clients[p].pc = "saving"
    /\ At(p, "opened", clients[p].token)
    /\ token_file' = Truncated
    /\ UNCHANGED <<vendor_issued, savers>>

\* _save_token, lines 324-328, and the returns of lines 285 and 303.
Dump(p) ==
    /\ clients[p].pc = "opened"
    /\ At(p, "returned", clients[p].token)
    /\ _save_token(clients[p].token)
    /\ savers' = Append(savers, p)
    /\ UNCHANGED vendor_issued

RaceFrame ==
    /\ UNCHANGED <<token, auto_refresh, now, oauth, issued, last_userid>>
    /\ UNCHANGED <<fetchers, finishers>>
    /\ UNCHANGED <<storageVars, account, enabled_data_types, apiVars, portVars, fa,
                   localVars, historyVars, clientVars>>

SyncConstruct ==
    (\E p \in Invocations : Construct(p)) /\ RaceFrame

SyncValidToken ==
    (\E p \in Invocations : ValidToken(p)) /\ RaceFrame

SyncOpen ==
    (\E p \in Invocations : Open(p)) /\ RaceFrame

SyncDump ==
    (\E p \in Invocations : Dump(p)) /\ RaceFrame

NextTokenRace ==
    \/ SyncConstruct
    \/ SyncValidToken
    \/ SyncOpen
    \/ SyncDump
    \/ Tick

\* The setup has left a token in the file; no fetch takes part.
InitTokenRace ==
    /\ InitStorage
    /\ InitFetcher
    /\ InitClient
    /\ InitApi
    /\ InitRace
    /\ account = EmptyAccount
    /\ enabled_data_types = EmptyDict
    /\ token = NoToken
    /\ \E tok \in SetupTokens : token_file = to_dict(tok)
    /\ auto_refresh = TRUE
    /\ now = 0
    /\ oauth = NoCall
    /\ issued = NotIssued
    /\ last_userid = None

SpecTokenRace ==
    InitTokenRace /\ [][NextTokenRace]_vars

(***************************************************************************)
(* Two sync invocations over one database.  Each runs fetch_measurements  *)
(* with frames of its own (no start date given, heart rates stored); the  *)
(* store methods and update_sync_state commit one after the other, and no *)
(* lock is held between them.                                              *)
(***************************************************************************)
Step(q, frame) ==
    fetchers' = [fetchers EXCEPT ![q] = frame]

\* Lines 104-121: the cursor is read and the working lists are emptied.
Begin(q) ==
    /\ fetchers[q].pc = "start"
    /\ Step(q, [NoFrame EXCEPT
                  !.pc = "measurements",
                  !.start_date = ResumeFrom(None, get_sync_state("measurements"))])
    /\ UNCHANGED <<storageVars, finishers>>

\* What get_measurements can give the fetcher of the account of this
\* specification: an exception that the fetch catches or does not, or a body.
MeasurementAnswers ==
    { LET r == _make_request(stream, 0, <<>>)
      IN [raised |-> r.raised, caught |-> r.raised /\ Catches(r.exc), body |-> r.body] :
        stream \in FetchStreams(MeasBodies(Accounts[1])) }

\* One iteration of the while loop (lines 123-179).
RacePage(q) ==
    /\ fetchers[q].pc = "measurements"
    /\ \E r \in MeasurementAnswers :
         LET f    == fetchers[q]
             grps == r.body.measuregrps
             ms   == f.collected \cup PageMeasurements(grps)
             hrs  == f.heart_rates \cup PageHeartRates(grps, TRUE)
             last == PageLastTimestamp(f.last_timestamp, grps)
             g    == [f EXCEPT !.collected = ms, !.heart_rates = hrs,
                               !.last_timestamp = last]
         IN IF r.raised
            THEN Step(q, [f EXCEPT !.pc = IF r.caught THEN "failed" ELSE "raised"])
            ELSE IF Malformed(grps)
            THEN Step(q, [f EXCEPT !.pc = IF Catches(KeyError) THEN "failed" ELSE "raised"])
            ELSE IF ~More(r.body)
            THEN Step(q, [g EXCEPT !.pc = "storing"])
            ELSE IF StopsEarly(r.body.offset, f.seen_offsets)
            THEN Step(q, [g EXCEPT !.pc = "storing", !.offset = r.body.offset])
            ELSE Step(q, [g EXCEPT !.offset = r.body.offset,
                                   !.seen_offsets = @ \cup {r.body.offset}])
    /\ UNCHANGED <<storageVars, finishers>>

\* Lines 181-186: store_measurements and store_heart_rate.
Store(q) ==
    /\ fetchers[q].pc = "storing"
    /\ LET f == fetchers[q]
       IN /\ Step(q, [f EXCEPT !.pc = "stored"])
          /\ IF f.collected # {}
             THEN /\ measurements' = Upsert("measurements", measurements,
                                            {MeasurementRow(m) : m \in f.collected})
                  /\ heart_rate' = IF f.heart_rates # {}
                                   THEN Upsert("heart_rate", heart_rate,
                                               {HeartRateRow(h) : h \in f.heart_rates})
                                   ELSE heart_rate
             ELSE UNCHANGED <<measurements, heart_rate>>
    /\ UNCHANGED <<sync_state, writes, activity_summary, sleep_summary, finishers>>

\* What the fetch passes to update_sync_state: lines 187 and 190, and the
\* except clauses (lines 192-197).
CursorArgs(f) ==
    IF f.pc = "failed" THEN [ts |-> None, status |-> "error"]
    ELSE IF f.collected # {} THEN [ts |-> f.last_timestamp, status |-> "success"]
    ELSE [ts |-> None, status |-> "success"]

\* The update_sync_state of the fetch, and its return.
Cursor(q) ==
    /\ fetchers[q].pc \in {"stored", "failed"}
    /\ LET f == fetchers[q]
           a == CursorArgs(f)
       IN /\ update_sync_state("measurements", a.ts, a.status)
          /\ Step(q, [f EXCEPT !.pc = "returned", !.wrote = a])
    /\ finishers' = Append(finishers, q)
    /\ UNCHANGED <<measurements, heart_rate, activity_summary, sleep_summary>>

CursorRaceFrame ==
    /\ UNCHANGED <<account, enabled_data_types, apiVars, oauthVars, portVars, fa,
                   localVars, historyVars, clientVars>>
    /\ UNCHANGED <<clients, vendor_issued, savers>>

SyncBegin ==
    (\E q \in Invocations : Begin(q)) /\ CursorRaceFrame

SyncPage ==
    (\E q \in Invocations : RacePage(q)) /\ CursorRaceFrame

SyncStore ==
    (\E q \in Invocations : Store(q)) /\ CursorRaceFrame

SyncCursor ==
    (\E q \in Invocations : Cursor(q)) /\ CursorRaceFrame

NextCursorRace ==
    \/ SyncBegin
    \/ SyncPage
    \/ SyncStore
    \/ SyncCursor

\* The account with measure groups, measurements enabled.
InitCursorRace ==
    /\ Init
    /\ account = Accounts[1]
    /\ enabled_data_types = [measurements |-> TRUE]

SpecCursorRace ==
    InitCursorRace /\ [][NextCursorRace]_vars

(***************************************************************************)
(* The sync command (cli.py lines 126-160): the OAuth client holds the    *)
(* token of the credential file, get_credentials has returned it, the     *)
(* fetcher is constructed with it and fetch_all_data runs while time      *)
(* passes.  The command calls the OAuth client no more.                    *)
(***************************************************************************)
\* The tokens handed to the fetcher: they are due for a refresh one
\* second after the start, or three hours later.
SyncCredentials ==
    { Credentials("a1", 10800), Credentials("a2", 301) }

\* All data types enabled by default, on an account without data.
SyncScenarios ==
    { <<EmptyDict, EmptyAccount>> }

InitSync ==
    /\ InitStorage
    /\ InitFetcher
    /\ InitApi
    /\ InitRace
    /\ \E tok \in SyncCredentials :
         /\ WithingsDataFetcher(tok)
         /\ token = tok
         /\ token_file = to_dict(tok)
    /\ auto_refresh = TRUE
    /\ now = 0
    /\ oauth = NoCall
    /\ issued = NotIssued
    /\ last_userid = None
    /\ \E sc \in SyncScenarios : enabled_data_types = sc[1] /\ account = sc[2]

NextSync ==
    \/ FetchAllData
    \/ FetchAllMeasurements
    \/ MeasurementsPage
    \/ FetchAllActivity
    \/ ActivityChunk
    \/ FetchAllSleep
    \/ SleepChunk
    \/ FetchAllReturn
    \/ Tick

SpecSync ==
    InitSync /\ [][NextSync]_vars

(***************************************************************************)
(* Properties of the API client (specification SpecApi).                  *)
(***************************************************************************)
Called ==
    api_request.method # "none"

Requests(trace) ==
    Cardinality({i \in DOMAIN trace : trace[i].ev = "http"})

Sleeps(trace) ==
    [i \in 1..Cardinality({j \in DOMAIN trace : trace[j].ev = "sleep"}) |->
        trace[CHOOSE j \in DOMAIN trace :
                  /\ trace[j].ev = "sleep"
                  /\ Cardinality({k \in 1..j : trace[k].ev = "sleep"}) = i].secs]

AlwaysRateLimited ==
    \A i \in DOMAIN api_stream :
        api_stream[i].transport = "ok" /\ api_stream[i].status = 601

\* C1: when every response to a request carries status 601, _make_request
\* sends exactly four HTTP requests, sleeps 60, 120 and 240 seconds between
\* them, and then raises WithingsRateLimitError; and no call ever waits more
\* than 300 seconds in one sleep.
C1_RateLimitBackoff ==
    /\ (Called /\ AlwaysRateLimited) =>
          /\ api_result.raised
          /\ api_result.exc = WithingsRateLimitError
          /\ Requests(api_result.trace) = 4
          /\ Sleeps(api_result.trace) = <<60, 120, 240>>
          /\ api_result.trace = <<HttpEvent, SleepEvent(60), HttpEvent, SleepEvent(120),
                                  HttpEvent, SleepEvent(240), HttpEvent>>
    /\ \A i \in DOMAIN api_result.trace : api_result.trace[i].secs <= 300

C1_Witness ==
    /\ Called
    /\ AlwaysRateLimited
    /\ api_result.raised
    /\ api_result.exc.class = "WithingsRateLimitError"
    /\ Len(api_result.trace) = 7

\* C2: a response with status 401, 328 or 2554 makes _make_request raise
\* WithingsAuthError after exactly one HTTP request, with no sleep and no
\* retry; and whenever a call ends in WithingsAuthError, the response that
\* carried the status is the last thing the call did.
C2_AuthErrorNoRetry ==
    /\ (Called /\ api_stream[1].transport = "ok"
               /\ api_stream[1].status \in {401, 328, 2554}) =>
          /\ api_result.raised
          /\ api_result.exc = WithingsAuthError(api_stream[1].status)
          /\ api_result.trace = <<HttpEvent>>
    /\ (Called /\ api_result.exc.class = "WithingsAuthError") =>
          LET n == Requests(api_result.trace)
          IN /\ api_stream[n].status \in {401, 328, 2554}
             /\ api_result.exc.status_code = api_stream[n].status
             /\ api_result.trace[Len(api_result.trace)] = HttpEvent
             /\ Len(Sleeps(api_result.trace)) = n - 1

C2_Witness ==
    /\ Called
    /\ api_stream[1].transport = "ok"
    /\ api_stream[1].status = 328
    /\ api_result.exc.class = "WithingsAuthError"
    /\ Requests(api_result.trace) = 1

\* The response the call ended on: the answer to its last HTTP request.
LastResponse ==
    api_stream[Requests(api_result.trace)]

\* C16: _make_request returns a body if and only if the envelope status
\* equals 0; a response whose status is missing or has any other value
\* raises: WithingsAuthError for 401, 328 and 2554, WithingsRateLimitError
\* for 601 once the retries are exhausted, and a generic WithingsAPIError
\* carrying the status (-1 for a missing one) for everything else.
C16_EnvelopeClassified ==
    (Called /\ LastResponse.transport = "ok") =>
        LET status == LastResponse.status
        IN /\ ~api_result.raised <=> status = 0
           /\ ~api_result.raised => api_result.body = LastResponse.body
           /\ status \in {401, 328, 2554} =>
                 api_result.exc = WithingsAuthError(status)
           /\ status = 601 =>
                 /\ api_result.exc = WithingsRateLimitError
                 /\ Requests(api_result.trace) = 4
           /\ status = Absent => api_result.exc = WithingsAPIError(-1)
           /\ status \notin {0, 401, 328, 2554, 601, Absent} =>
                 api_result.exc = WithingsAPIError(status)

\* A call has ended on an envelope without a status field.
C16_Witness ==
    /\ Called
    /\ LastResponse.transport = "ok"
    /\ LastResponse.status = Absent
    /\ api_result.raised
    /\ api_result.exc = WithingsAPIError(-1)

\* C17: a transport-level failure and any vendor status other than 0 and 601
\* make _make_request raise after exactly one HTTP request and without
\* sleeping; transport failures surface as WithingsAPIError with status -1.
C17_NoOtherRetry ==
    /\ (Called /\ api_stream[1].transport = "failed") =>
          /\ api_result.raised
          /\ api_result.exc = WithingsAPIError(-1)
          /\ api_result.trace = <<HttpEvent>>
    /\ (Called /\ api_stream[1].transport = "ok"
               /\ api_stream[1].status \notin {0, 601}) =>
          /\ api_result.raised
          /\ api_result.trace = <<HttpEvent>>
    /\ (Called /\ api_result.raised /\ LastResponse.transport = "failed") =>
          /\ api_result.exc = WithingsAPIError(-1)
          /\ api_result.trace[Len(api_result.trace)] = HttpEvent

\* A call answered by the listed error status 2555 has raised at once.
C17_Witness ==
    /\ Called
    /\ api_stream[1].transport = "ok"
    /\ api_stream[1].status = 2555
    /\ api_result.raised
    /\ api_result.exc = WithingsAPIError(2555)
    /\ api_result.trace = <<HttpEvent>>

\* The first j responses carry status 601.
RateLimitedFirst(j) ==
    \A i \in 1..j : api_stream[i].transport = "ok" /\ StatusOf(api_stream[i]) = 601

\* What _make_request raises on a response that is an error other than 601.
ErrorOf(response) ==
    IF response.transport = "failed" THEN WithingsAPIError(-1)
    ELSE IF StatusOf(response) \in {401, 328, 2554}
    THEN WithingsAuthError(StatusOf(response))
    ELSE WithingsAPIError(StatusOf(response))

\* C33: if a request receives status 601 on its first j attempts
\* (1 <= j <= 3) and status 0 on the next, _make_request returns the body of
\* that response after j + 1 HTTP requests and exactly j sleeps; if the
\* attempt after the j-th 601 yields an error other than 601, that error is
\* raised after j + 1 HTTP requests, the last thing the call did.
C33_RetryThenAnswer ==
    Called =>
        \A j \in 1..3 :
            RateLimitedFirst(j) =>
                LET next == api_stream[j + 1]
                    t    == api_result.trace
                IN /\ (next.transport = "ok" /\ StatusOf(next) = 0) =>
                          /\ ~api_result.raised
                          /\ api_result.body = next.body
                          /\ Requests(t) = j + 1
                          /\ Len(Sleeps(t)) = j
                   /\ (next.transport = "failed" \/ StatusOf(next) \notin {0, 601}) =>
                          /\ api_result.raised
                          /\ api_result.exc = ErrorOf(next)
                          /\ Requests(t) = j + 1
                          /\ Len(Sleeps(t)) = j
                          /\ t[Len(t)] = HttpEvent

\* A call answered with status 601 three times and then with status 0 has
\* returned after three sleeps.
C33_Witness ==
    /\ Called
    /\ RateLimitedFirst(3)
    /\ api_stream[4].transport = "ok"
    /\ StatusOf(api_stream[4]) = 0
    /\ ~api_result.raised
    /\ Sleeps(api_result.trace) = <<60, 120, 240>>

(***************************************************************************)
(* Properties of the fetcher (specification Spec).                        *)
(***************************************************************************)
InMeasurements ==
    fetching = "measurements"

Ended ==
    pc = "idle"

\* Page i declared more=true with an offset no earlier page of this fetch
\* returned.
FreshMore(i) ==
    /\ pages[i].wellformed
    /\ pages[i].more
    /\ pages[i].offset # None
    /\ \A j \in 1..(i - 1) : pages[j].offset # pages[i].offset

\* The vendor answered k pages: all but the last FreshMore, the last with
\* more false or missing.
KPages ==
    /\ Len(pages) >= 1
    /\ \A i \in 1..(Len(pages) - 1) : FreshMore(i)
    /\ pages[Len(pages)].wellformed
    /\ ~pages[Len(pages)].more

\* The measurements table holds the record of measure m of group g.
MeasureStored(g, m) ==
    \E r \in measurements :
        /\ r.timestamp = isoformat(g.date + UtcOffset)
        /\ r.measure_type = (IF m.type = 11 THEN "heart_rate" ELSE "weight")
        /\ r.value = m.value * (10 ^ m.unit)

GroupsStored ==
    \A g \in served : \A i \in DOMAIN g.measures : MeasureStored(g, g.measures[i])

\* C3: in fetch_measurements the first request carries no offset and each
\* later one the offset the previous response returned; a page with
\* more=true and a not-yet-seen offset is always followed by another
\* request; and when the vendor has answered k pages, the last with more
\* false or missing, the fetch has ended in success after exactly k requests
\* with the records of all k pages in the measurements table.
C3_Pagination ==
    InMeasurements =>
        /\ \A i \in DOMAIN calls :
              calls[i].offset = (IF i = 1 THEN None ELSE pages[i - 1].offset)
        /\ \A i \in DOMAIN pages :
              FreshMore(i) => \/ Len(calls) > i
                              \/ Len(calls) = i /\ pc = "measurements"
        /\ KPages =>
              /\ Ended
              /\ outcome = "success"
              /\ Len(calls) = Len(pages)
              /\ GroupsStored

C3_Witness ==
    /\ InMeasurements
    /\ KPages
    /\ Ended
    /\ Len(calls) = 2
    /\ pages[1].offset = 1
    /\ Cardinality(served) = 2
    /\ GroupsStored

\* Page i declared more=true with no offset or with an offset an earlier page
\* of this fetch returned.
StaleMore(i) ==
    /\ pages[i].more
    /\ \/ pages[i].offset = None
       \/ \E j \in 1..(i - 1) : pages[j].offset = pages[i].offset

\* C4: no request follows a page that declared more=true with an offset
\* already returned in this fetch or with no offset: that page ends the
\* fetch; and with the vendor's offsets drawn from N values a fetch issues at
\* most N + 1 requests.
C4_PaginationGuard ==
    InMeasurements =>
        /\ \A i \in DOMAIN pages : StaleMore(i) => Ended /\ Len(calls) = i
        /\ Len(calls) <= Cardinality(Offsets) + 1

C4_Witness ==
    /\ InMeasurements
    /\ Ended
    /\ outcome = "success"
    /\ Len(calls) = Cardinality(Offsets) + 1
    /\ StaleMore(Len(pages))
    /\ pages[Len(pages)].offset # None

\* The enabled data types, in the order measurements, activity, sleep.
RECURSIVE Enabled(_)
Enabled(types) ==
    IF types = <<>> THEN <<>>
    ELSE (IF Head(types) \in DOMAIN fa.data_types /\ fa.data_types[Head(types)]
          THEN <<Head(types)>> ELSE <<>>)
         \o Enabled(Tail(types))

FetchOrder ==
    Enabled(<<"measurements", "activity", "sleep">>)

\* C5: fetch_all_data fetches the enabled types in the order measurements,
\* activity, sleep; no exception raised inside a type's fetch leaves that
\* fetch; a type whose fetch raised has cursor status error; and when
\* fetch_all_data returns every enabled type has been fetched, whatever
\* happened to the types before it.
C5_FailureIsolation ==
    /\ fa.at # "raised"
    /\ Len(fa.log) <= Len(FetchOrder)
    /\ \A i \in DOMAIN fa.log :
          /\ fa.log[i].type = FetchOrder[i]
          /\ fa.log[i].outcome \in {"success", "error"}
          /\ fa.log[i].exception # "none" =>
                /\ fa.log[i].outcome = "error"
                /\ sync_state[fa.log[i].type].status = "error"
    /\ fa.at = "returned" => Len(fa.log) = Len(FetchOrder)

C5_Witness ==
    /\ fa.at = "returned"
    /\ Len(fa.log) = 3
    /\ fa.log[1].exception = "WithingsRateLimitError"
    /\ fa.log[2].exception = "KeyError"
    /\ fa.log[3].outcome = "success"
    /\ sync_state["measurements"].status = "error"
    /\ sync_state["activity"].status = "error"
    /\ sync_state["sleep"].status = "success"

\* C6: when a fetch of measurements, activity or sleep ends having collected
\* no records, the cursor status is success and last_data_timestamp is what
\* it was before the fetch.
C6_EmptyFetchKeepsCursor ==
    (Ended /\ fetching \in DataTypes /\ outcome = "success" /\ collected = {}) =>
        /\ sync_state[fetching].status = "success"
        /\ sync_state[fetching].last_data_timestamp = before.last_data_timestamp

\* The cursor's last_data_timestamp when the running fetch began.
D ==
    before.last_data_timestamp

\* C7: the first request of a fetch given an explicit start date starts at
\* that date, whatever the cursor holds; the first request of a fetch given
\* none, for a type whose cursor holds last_data_timestamp D, starts at D
\* (measurements: startdate is the instant whose local time reads D;
\* activity and sleep: the first chunk starts on the day of D).
C7_ResumeFromCursor ==
    (fetching \in DataTypes /\ Len(calls) >= 1) =>
        /\ (fa.start_date # None) =>
              IF InMeasurements
              THEN calls[1].startdate + UtcOffset = fa.start_date
              ELSE calls[1].startdateymd = fa.start_date \div TicksPerDay
        /\ (fa.start_date = None /\ D # NULL) =>
              IF InMeasurements
              THEN isoformat(calls[1].startdate + UtcOffset) = D
              ELSE calls[1].startdateymd = D.date

C7_Witness ==
    /\ InMeasurements
    /\ fa.start_date = None
    /\ D = [date |-> Today - 100, time |-> 1]
    /\ Len(calls) >= 1
    /\ calls[1].startdate = NewTs

ChunkTypes ==
    {"activity", "sleep"}

\* ceil((end - start) / 200 days), none when start >= end.
Chunks ==
    IF start_date < end_date
    THEN (end_date - start_date + 200 * TicksPerDay - 1) \div (200 * TicksPerDay)
    ELSE 0

\* The chunk loop ran to its end.
Completed ==
    Ended /\ exception = "none"

\* C8: in a fetch of activity or sleep over [start, end) the first chunk
\* request begins at start, each later one where the one before it ended,
\* none spans more than 200 days, and never more than
\* ceil((end - start) / 200 days) are issued; a fetch whose loop ran to its
\* end issued exactly that many, the last ending at end, and none at all
\* when start >= end.
C8_Chunking ==
    fetching \in ChunkTypes =>
        /\ \A i \in DOMAIN calls :
              /\ calls[i].startdateymd =
                    (IF i = 1 THEN start_date \div TicksPerDay
                     ELSE calls[i - 1].enddateymd)
              /\ calls[i].enddateymd - calls[i].startdateymd <= 200
        /\ Len(calls) <= Chunks
        /\ Completed =>
              /\ Len(calls) = Chunks
              /\ Chunks > 0 => calls[Chunks].enddateymd = end_date \div TicksPerDay

C8_Witness ==
    /\ fetching \in ChunkTypes
    /\ Completed
    /\ end_date - start_date = 450 * TicksPerDay
    /\ Len(calls) = 3

\* The table of the running fetch holds the vendor record x.
ChunkRecordStored(x) ==
    IF fetching = "activity"
    THEN \E r \in activity_summary : r.date = x.date /\ r.steps = x.steps
    ELSE \E r \in sleep_summary :
            /\ r.start_time = isoformat(x.startdate + UtcOffset)
            /\ r.quality = x.sleep_score

\* C9: a fetch of activity or sleep in which no response raised anything but
\* API errors ends in success having called the API client exactly once for
\* every chunk of the range, with the records of every chunk that answered
\* in the table.
C9_ChunkErrorSkipped ==
    (fetching \in ChunkTypes /\ Ended /\ exception # "KeyError") =>
        /\ outcome = "success"
        /\ sync_state[fetching].status = "success"
        /\ Len(calls) = Chunks
        /\ \A i, j \in DOMAIN calls : i # j => calls[i] # calls[j]
        /\ \A x \in served : ChunkRecordStored(x)

C9_Witness ==
    /\ fetching \in ChunkTypes
    /\ Ended
    /\ absorbed
    /\ outcome = "success"
    /\ Len(calls) = 3
    /\ served # {}
    /\ \A x \in served : ChunkRecordStored(x)

\* The measures with vendor type code 11 the vendor returned in this fetch,
\* each with the group that carried it.
Type11Served ==
    UNION { { <<g, g.measures[i]>> :
                i \in {j \in DOMAIN g.measures : g.measures[j].type = 11} } :
            g \in served }

HeartRateStaged(g, m) ==
    \E h \in heart_rates :
        h.timestamp = g.date + UtcOffset /\ h.heart_rate = m.value * (10 ^ m.unit)

HeartRateStored(g, m) ==
    \E r \in heart_rate :
        /\ r.timestamp = isoformat(g.date + UtcOffset)
        /\ r.heart_rate = m.value * (10 ^ m.unit)

HeartRateDisabled ==
    /\ "heart_rate" \in DOMAIN enabled_data_types
    /\ ~enabled_data_types["heart_rate"]

\* C10 as stated: once fetch_measurements has ended, every measure with type
\* code 11 the vendor returned during it has a record in the measurements
\* table, and one in the heart-rate table if and only if store_heart_rate is
\* enabled.
C10_AsStated ==
    (InMeasurements /\ Ended) =>
        \A p \in Type11Served :
            /\ MeasureStored(p[1], p[2])
            /\ HeartRateStored(p[1], p[2]) <=> store_heart_rate

\* C10, amended: once fetch_measurements has ended in success, every measure
\* with type code 11 returned during it has a record in the measurements
\* table, and was handed to the heart-rate table, where it then is, if and
\* only if store_heart_rate is enabled; every heart-rate record staged comes
\* from a measure with type code 11; and with heart-rate capture disabled in
\* the configuration the heart-rate table stays empty.
C10_HeartRateExtraction ==
    /\ (InMeasurements /\ Ended /\ outcome = "success") =>
          \A p \in Type11Served :
              /\ MeasureStored(p[1], p[2])
              /\ HeartRateStaged(p[1], p[2]) <=> store_heart_rate
              /\ HeartRateStored(p[1], p[2]) <=> store_heart_rate
    /\ InMeasurements =>
          \A h \in heart_rates :
              /\ h.raw_type = 11
              /\ \E p \in Type11Served :
                    /\ h.timestamp = p[1].date + UtcOffset
                    /\ h.heart_rate = p[2].value * (10 ^ p[2].unit)
    /\ HeartRateDisabled => heart_rate = {}

C10_Witness ==
    /\ InMeasurements
    /\ Ended
    /\ outcome = "success"
    /\ store_heart_rate
    /\ Type11Served # {}
    /\ \A p \in Type11Served : HeartRateStored(p[1], p[2])
    /\ Cardinality(measurements) > Cardinality(heart_rate)

(***************************************************************************)
(* Properties of the OAuth client (SpecOAuth).  issued records the last    *)
(* successful exchange or refresh: its time T, the expires_in E and the    *)
(* token_expiry X and the userid U of the response body (Absent when the   *)
(* body has none).  last_userid is the userid of the most recent response  *)
(* that carried one since the exchange that created the token.             *)
(***************************************************************************)
Held ==
    token # NoToken

\* C11: after a successful exchange or refresh at time T whose response
\* carries expires_in = E, the held token has token_expiry = T + E, whatever
\* token_expiry the response body carried, and is_expired() is true exactly
\* when now >= T + E - 300.
C11_ExpiryDerived ==
    (Held /\ issued.E # Absent) =>
        /\ token.token_expiry = issued.T + issued.E
        /\ is_expired(token, now) <=> (now >= issued.T + issued.E - 300)

\* A response with its own token_expiry and expires_in = 301 was accepted,
\* and the clock has reached T + E - 300.
C11_Witness ==
    /\ Held
    /\ issued.X # Absent
    /\ issued.X # issued.T + issued.E
    /\ issued.E = 301
    /\ now = issued.T + 1
    /\ is_expired(token, now)

\* A step of get_valid_token called with a token held.
ValidTokenCall ==
    /\ Held
    /\ oauth'.op = "get_valid_token"

Due ==
    auto_refresh /\ now >= token.token_expiry - 300

\* What a call of get_valid_token does, by whether a refresh is due.
RefreshesWhenDue ==
    /\ oauth'.requests = 1 <=> Due
    /\ oauth'.requests <= 1
    /\ ~Due => /\ ~oauth'.raised
               /\ oauth'.returned = token
               /\ token' = token
               /\ token_file' = token_file

\* C12 as stated: with a token held, get_valid_token sends a refresh request
\* if and only if auto_refresh is enabled and now >= token_expiry - 300, at
\* most one per call, and otherwise returns the held token unchanged without
\* any request.
C12_AsStated ==
    [][ValidTokenCall => RefreshesWhenDue]_vars

\* C12: the same, for a held token that has a refresh token; with a held token
\* whose refresh token is empty a due refresh sends no request and raises
\* WithingsOAuthError "No refresh token available".
C12_RefreshWhenDue ==
    [][ValidTokenCall =>
          IF token.refresh_token # ""
          THEN RefreshesWhenDue
          ELSE /\ oauth'.requests = 0
               /\ Due => /\ oauth'.raised
                         /\ oauth'.exc = WithingsOAuthError(0, "No refresh token available")
               /\ ~Due => oauth'.returned = token
               /\ token' = token]_vars

\* get_valid_token has refreshed a token that came due exactly now.
C12_Witness ==
    /\ oauth.op = "get_valid_token"
    /\ oauth.requests = 1
    /\ ~oauth.raised
    /\ oauth.returned = token
    /\ issued.T = now
    /\ now > 0

NonJsonAnswer ==
    /\ oauth.requests = 1
    /\ oauth.http # None
    /\ ~oauth.json

\* C14: when the token endpoint answers an exchange or a refresh with a body
\* that is not JSON, the operation raises WithingsOAuthError with the
\* non-JSON message (which no envelope error carries), never another
\* exception.
C14_NonJsonRaisesOAuthError ==
    NonJsonAnswer =>
        /\ oauth.raised
        /\ oauth.exc.class = "WithingsOAuthError"
        /\ oauth.exc.message = "Non-JSON response from token endpoint"
        /\ \A e \in ErrorEnvelopes : Get(e, "error", "") # oauth.exc.message

\* C15: after every successful exchange or refresh the credential file holds
\* exactly the held token, so a client constructed afterwards over the same
\* file, at whatever time, loads an equal token.
C15_FileHoldsToken ==
    Held =>
        /\ token_file = to_dict(token)
        /\ \A time \in 0..MaxClock : _load_token(token_file, time) = token

\* A client constructed after the exchange or refresh has loaded the token.
C15_Witness ==
    /\ oauth.op = "__init__"
    /\ Held
    /\ now > issued.T
    /\ token.token_expiry = issued.T + token.expires_in
    /\ token.userid = 2

(***************************************************************************)
(* Further properties of the fetcher (specification Spec).                 *)
(***************************************************************************)
\* The instants of the collected records that count for the cursor: the
\* group timestamp, the date (at midnight), the start_time.
CollectedTimestamps ==
    IF InMeasurements THEN { m.timestamp : m \in collected }
    ELSE IF fetching = "activity" THEN { combine(a.date) : a \in collected }
    ELSE { x.start_time : x \in collected }

\* C18: after a fetch that collected at least one record and succeeded, the
\* cursor's last_data_timestamp is the maximum, over all collected records,
\* of the group timestamp (measurements), the date (activity) or the
\* start_time (sleep), in whatever order pages or chunks returned them.
C18_CursorIsMaximum ==
    (Ended /\ fetching \in DataTypes /\ outcome = "success" /\ collected # {}) =>
        /\ sync_state[fetching].status = "success"
        /\ sync_state[fetching].last_data_timestamp =
              isoformat(Max(CollectedTimestamps))

\* A measurements fetch of several pages has collected records of two
\* instants and ended with the cursor at the later one.
C18_Witness ==
    /\ Ended
    /\ InMeasurements
    /\ outcome = "success"
    /\ Len(pages) >= 2
    /\ Cardinality(CollectedTimestamps) = 2
    /\ sync_state.measurements.last_data_timestamp = isoformat(fromtimestamp(NewTs))

\* A fetch has ended after an API error was caught in it.
EndedAbsorbed ==
    /\ Ended
    /\ fetching \in DataTypes
    /\ absorbed

\* C19 as stated: every API error absorbed while fetching a data type leaves
\* that type's cursor with status error at the end of that fetch.
C19_AsStated ==
    EndedAbsorbed => sync_state[fetching].status = "error"

\* C19: an API error absorbed by fetch_measurements leaves the measurements
\* cursor with status error at the end of the fetch; an API error absorbed
\* for a chunk of fetch_activity or fetch_sleep is skipped, and the cursor
\* ends with status success unless another chunk raised a non-API
\* exception; the error is never re-raised to the caller.
C19_AbsorbedApiError ==
    EndedAbsorbed =>
        /\ outcome # "raised"
        /\ IF InMeasurements
           THEN /\ outcome = "error"
                /\ sync_state.measurements.status = "error"
           ELSE /\ sync_state[fetching].status # "none"
                /\ sync_state[fetching].status = "error" <=> exception = "KeyError"
                /\ sync_state[fetching].status = "success" <=> outcome = "success"

\* fetch_measurements met an API error on a later page and ended with the
\* cursor at error.
C19_Witness ==
    /\ EndedAbsorbed
    /\ InMeasurements
    /\ Len(pages) >= 1
    /\ served # {}
    /\ exception = "WithingsAuthError"
    /\ sync_state.measurements.status = "error"

(***************************************************************************)
(* Properties of the storage (specification SpecStorage).                  *)
(***************************************************************************)
TableNames ==
    {"measurements", "heart_rate", "activity_summary", "sleep_summary"}

Table(name) ==
    CASE name = "measurements" -> measurements
      [] name = "heart_rate" -> heart_rate
      [] name = "activity_summary" -> activity_summary
      [] name = "sleep_summary" -> sleep_summary

\* The lists of rows a store method can be handed.
RowLists(name) ==
    CASE name = "measurements" ->
            { [i \in DOMAIN l |-> MeasurementRow(l[i])] : l \in Batches(MeasurementDicts) }
      [] name = "heart_rate" ->
            { [i \in DOMAIN l |-> HeartRateRow(l[i])] : l \in Batches(HeartRateDicts) }
      [] name = "activity_summary" ->
            { [i \in DOMAIN l |-> ActivityRow(l[i])] : l \in Batches(ActivityDicts) }
      [] name = "sleep_summary" ->
            { [i \in DOMAIN l |-> SleepRow(l[i])] : l \in Batches(SleepDicts) }

\* C20: two records with the same natural key (timestamp and type for
\* measurements, timestamp for heart rate, date for activity, start_time for
\* sleep) occupy one row; a store adds exactly one row per key the table did
\* not hold, so storing records whose keys are all stored leaves the count
\* unchanged, and storing any list a second time leaves it unchanged.
C20_StoreIdempotent ==
    /\ \A name \in TableNames :
          /\ \A r1, r2 \in Table(name) :
                KeyOf(name, r1) = KeyOf(name, r2) => r1 = r2
          /\ \A rows \in RowLists(name) :
                LET once  == StoreAll(name, Table(name), rows)
                    twice == StoreAll(name, once, rows)
                IN Cardinality(twice) = Cardinality(once)
    /\ last_store.after = last_store.before + last_store.new
    /\ last_store.new = 0 => last_store.after = last_store.before

\* A store of measurements whose keys the table all held has left the two
\* rows of the table two rows.
C20_Witness ==
    /\ last_store.name = "measurements"
    /\ last_store.new = 0
    /\ last_store.before = 2
    /\ last_store.after = 2
    /\ Cardinality(measurements) = 2

\* A fetch of activity or sleep given no start date, for a type whose cursor
\* holds no last_data_timestamp.
NoStartNoCursor ==
    /\ fetching \in ChunkTypes
    /\ fa.active
    /\ fa.start_date = None
    /\ D = NULL

CallWithoutToken ==
    /\ ~Held
    /\ oauth'.op \in {"refresh_access_token", "get_valid_token"}

\* C22: with no token held, refresh_access_token and get_valid_token both
\* raise WithingsOAuthError without sending any HTTP request and without
\* creating or changing the credential file.
C22_NoTokenNoRequest ==
    [][CallWithoutToken =>
          /\ oauth'.raised
          /\ oauth'.exc.class = "WithingsOAuthError"
          /\ oauth'.exc.message =
                (IF oauth'.op = "get_valid_token"
                 THEN "Not authenticated. Run setup first."
                 ELSE "No refresh token available")
          /\ oauth'.requests = 0
          /\ token_file' = token_file
          /\ token' = token]_vars

\* refresh_access_token has raised on a client without token.
C22_Witness ==
    /\ ~Held
    /\ oauth.op = "refresh_access_token"
    /\ oauth.raised
    /\ oauth.requests = 0
    /\ oauth.exc = WithingsOAuthError(0, "No refresh token available")

\* C23: if the credential file exists but cannot be parsed as a token,
\* constructing the OAuth client does not raise and leaves it with no token,
\* so get_valid_token then fails as not authenticated; the file itself is
\* left untouched by both.
C23_UnparseableFile ==
    [][/\ (oauth'.op = "__init__" /\ token_file \in Unparseable) =>
              /\ ~oauth'.raised
              /\ token' = NoToken
              /\ token_file' = token_file
       /\ (oauth.op = "__init__" /\ token_file \in Unparseable
             /\ oauth'.op = "get_valid_token") =>
              /\ oauth'.raised
              /\ oauth'.requests = 0
              /\ oauth'.exc = WithingsOAuthError(0, "Not authenticated. Run setup first.")
              /\ token_file' = token_file]_vars

\* A client has been constructed over a file that is not JSON.
C23_Witness ==
    /\ token_file = [text |-> "<html>"]
    /\ oauth.op = "__init__"
    /\ ~oauth.raised
    /\ ~Held

\* C24: after clear_credentials no token is held and the credential file is
\* absent; get_valid_token then fails as not authenticated, and a client
\* constructed then over the same path loads no token.
C24_ClearCredentials ==
    [][/\ oauth'.op = "clear_credentials" =>
              /\ token' = NoToken
              /\ token_file' = NoFile
       /\ (oauth.op = "clear_credentials" /\ oauth'.op = "get_valid_token") =>
              /\ oauth'.raised
              /\ oauth'.requests = 0
              /\ oauth'.exc = WithingsOAuthError(0, "Not authenticated. Run setup first.")
       /\ (oauth.op = "clear_credentials" /\ oauth'.op = "__init__") =>
              /\ ~oauth'.raised
              /\ token' = NoToken]_vars

\* The credentials an exchange or refresh had saved have been cleared.
C24_Witness ==
    /\ oauth.op = "clear_credentials"
    /\ ~Held
    /\ token_file = NoFile
    /\ issued.T # None

(***************************************************************************)
(* Properties of fetch_all_data (specification Spec).                      *)
(***************************************************************************)
\* fetch_all_data has been called (and may have returned).
InRun ==
    fa.at # "none"

\* data_types.get(type, False) of the running fetch_all_data.
IsEnabled(t) ==
    t \in DOMAIN fa.data_types /\ fa.data_types[t]

\* The fetches of type t that have ended in this run.
Finished(t) ==
    { i \in DOMAIN fa.log : fa.log[i].type = t }

\* C25: during fetch_all_data each enabled type's cursor is written exactly
\* once, after all of that type's requests have finished, with status
\* success or error (not written before and while the type is fetched,
\* written once its fetch has ended); the cursor of a type that is not
\* enabled is never written, and that type is never fetched.
C25_CursorWrittenOnce ==
    InRun =>
        \A t \in DataTypes :
            /\ writes[t] <= 1
            /\ Cardinality(Finished(t)) <= 1
            /\ pc = t => (writes[t] = 0 /\ Finished(t) = {} /\ IsEnabled(t))
            /\ Finished(t) = {} => writes[t] = 0
            /\ \A i \in Finished(t) :
                  /\ writes[t] = 1
                  /\ pc # t
                  /\ fa.log[i].outcome \in {"success", "error"}
                  /\ sync_state[t].status = fa.log[i].outcome
            /\ ~IsEnabled(t) =>
                  /\ writes[t] = 0
                  /\ Finished(t) = {}
                  /\ fetching # t
                  /\ pc # t
            /\ (IsEnabled(t) /\ fa.at \in {"done", "returned"}) => writes[t] = 1

\* A run with measurements and sleep enabled and activity disabled has come
\* to its end, one fetch failed and one succeeded.
C25_Witness ==
    /\ fa.at = "done"
    /\ IsEnabled("measurements") /\ ~IsEnabled("activity") /\ IsEnabled("sleep")
    /\ writes = [measurements |-> 1, activity |-> 0, sleep |-> 1]
    /\ sync_state.measurements.status = "error"
    /\ sync_state.sleep.status = "success"

\* The caller has supplied data_types (a dict that is not empty).
Supplied ==
    DOMAIN enabled_data_types # {}

\* The supplied data_types maps the type to true.
MapsToTrue(t) ==
    t \in DOMAIN enabled_data_types /\ enabled_data_types[t] = TRUE

Tables ==
    <<measurements, heart_rate, activity_summary, sleep_summary>>

\* A step in which the running fetch ends.
FetchEnds ==
    outcome = "running" /\ outcome' # "running"

\* C30: if a type's fetch ends with cursor status error, nothing collected
\* during that fetch is stored: the record tables change only in the step
\* in which a fetch ends with cursor status success, and the step in which
\* a fetch ends with status error leaves them as they were, whatever the
\* earlier pages gave (for measurements: their records and their heart-rate
\* samples).
C30_ErrorStoresNothing ==
    [][/\ Tables' # Tables =>
             /\ FetchEnds
             /\ sync_state'[fetching].status = "success"
       /\ (FetchEnds /\ sync_state'[fetching].status = "error") =>
             Tables' = Tables]_vars

\* fetch_measurements has ended in error on an API error, after earlier
\* pages had given records and heart-rate samples; the tables are empty.
C30_Witness ==
    /\ fetching = "measurements"
    /\ outcome = "error"
    /\ exception = "WithingsAPIError"
    /\ sync_state.measurements.status = "error"
    /\ Len(pages) >= 1
    /\ collected # {}
    /\ heart_rates # {}
    /\ measurements = {}
    /\ heart_rate = {}

\* C31: when a type's fetch ends with status error, the cursor's
\* last_data_timestamp is what it was before the fetch.
C31_ErrorKeepsCursor ==
    (Ended /\ fetching \in DataTypes /\ outcome = "error") =>
        /\ sync_state[fetching].status = "error"
        /\ sync_state[fetching].last_data_timestamp = D

\* A fetch has ended in success after storing what it collected, and the
\* cursor held a last_data_timestamp before it.
StoredOverCursor ==
    /\ Ended
    /\ fetching \in DataTypes
    /\ outcome = "success"
    /\ collected # {}
    /\ D # NULL

CursorNotOlder ==
    fromisoformat(sync_state[fetching].last_data_timestamp) >= fromisoformat(D)

\* C32 as stated: whenever a fetch ends with status success after storing at
\* least one record, the new last_data_timestamp of the type is greater than
\* or equal to the one held before the fetch.
C32_AsStated ==
    StoredOverCursor => CursorNotOlder

\* C32: the new last_data_timestamp is greater than or equal to the one held
\* before the fetch exactly when the fetch collected a record that is not
\* older than it; a fetch that collected only older records moves the
\* cursor back.
C32_CursorFollowsCollected ==
    StoredOverCursor =>
        (CursorNotOlder <=> \E ts \in CollectedTimestamps : ts >= fromisoformat(D))

\* A fetch given an explicit start date has stored older records and moved
\* the cursor back.
C32_Witness ==
    /\ StoredOverCursor
    /\ fa.start_date # None
    /\ ~CursorNotOlder

\* fetch_measurements has ended on a page that declared more=true with no
\* offset, or with an offset an earlier page of this fetch had returned.
StoppedEarly ==
    /\ Ended
    /\ InMeasurements
    /\ pages # <<>>
    /\ LET last == pages[Len(pages)]
       IN /\ last.wellformed
          /\ last.more
          /\ \/ last.offset = None
             \/ \E i \in 1..(Len(pages) - 1) : pages[i].offset = last.offset

\* C34: when pagination stops early on a repeated or missing offset, the
\* fetch ends in success, the records of all pages served, the page that
\* triggered the stop included, are in the measurements table, and the
\* cursor has status success and, when records were collected, the maximum
\* timestamp among them.
C34_EarlyStopStores ==
    StoppedEarly =>
        /\ outcome = "success"
        /\ GroupsStored
        /\ \A m \in collected : MeasurementRow(m) \in measurements
        /\ sync_state.measurements.status = "success"
        /\ collected # {} =>
              sync_state.measurements.last_data_timestamp =
                  isoformat(Max(CollectedTimestamps))

\* The second page repeated the offset of the first; the groups of both
\* pages are stored and the cursor is at the later one.
C34_Witness ==
    /\ StoppedEarly
    /\ Len(pages) = 2
    /\ pages[2].offset = pages[1].offset
    /\ Cardinality(served) = 2
    /\ GroupsStored
    /\ sync_state.measurements.last_data_timestamp = isoformat(fromtimestamp(NewTs))

\* The instants of the records of a type in storage, as the cursor of the
\* type would hold them.
StoredInstants(t) ==
    IF t = "measurements" THEN { r.timestamp : r \in measurements }
    ELSE IF t = "activity"
    THEN { isoformat(combine(r.date)) : r \in activity_summary }
    ELSE { r.start_time : r \in sleep_summary }

\* C37: after any sequence of fetches, whenever the cursor of a type holds a
\* last_data_timestamp D, storage holds a record of the type whose
\* timestamp (measurements), date (activity) or start_time (sleep) is D.
C37_CursorPointsAtRecord ==
    \A t \in DataTypes :
        sync_state[t].last_data_timestamp # NULL =>
            sync_state[t].last_data_timestamp \in StoredInstants(t)

\* After more than one fetch the measurements table holds the records of
\* both instants and the cursor is at the older one.
C37_Witness ==
    /\ Ended
    /\ Cardinality(StoredInstants("measurements")) = 2
    /\ sync_state.measurements.last_data_timestamp = isoformat(fromtimestamp(OldTs))
    /\ sync_state.measurements.last_data_timestamp \in StoredInstants("measurements")

\* A fetch method of this run was ended by an authentication error.
AuthErrorSeen ==
    \E i \in DOMAIN fa.log : fa.log[i].exception = "WithingsAuthError"

CursorWritten(t) ==
    /\ pc = "idle"
    /\ fetching = t
    /\ outcome \in {"success", "error"}
    /\ sync_state[t].status = outcome
    /\ writes[t] = 1

\* C39: when every request is answered in the end and the pagination
\* offsets of the vendor come from a finite set, every fetch of a type
\* that has started ends with its cursor written, with success or error,
\* and every fetch_all_data that has started comes to its end.
C39_Terminates ==
    /\ \A t \in DataTypes : (pc = t) ~> CursorWritten(t)
    /\ fa.active ~> ~fa.active

\* In a run under way the measurements fetch was served, on its second or
\* a later page, an offset it had seen before, and has ended with its
\* cursor written.
C39_Witness ==
    /\ fa.active
    /\ StoppedEarly
    /\ Len(pages) >= 2
    /\ pages[Len(pages)].offset # None
    /\ CursorWritten("measurements")

\* get_valid_token of a client with auto_refresh on has returned a token.
ValidTokenReturned ==
    /\ oauth.op = "get_valid_token"
    /\ ~oauth.raised
    /\ auto_refresh

\* The call refreshed, and the response gave the token 300 seconds or less.
ShortLived ==
    /\ oauth.requests = 1
    /\ issued.E # Absent
    /\ issued.E <= 300

FailedCall ==
    /\ oauth'.op \in {"exchange_code_for_token", "refresh_access_token",
                      "get_valid_token"}
    /\ oauth'.raised

\* C35: an exchange or refresh that fails (non-JSON body or nonzero envelope
\* status, and also a connection failure, an HTTP error status or a missing
\* refresh token) leaves the held token and the credential file exactly as
\* they were before the call.
C35_FailureLeavesToken ==
    [][FailedCall => (token' = token /\ token_file' = token_file)]_vars

\* A refresh answered with a body that is not JSON has raised
\* WithingsOAuthError; the client holds its token and the file holds it too.
C35_Witness ==
    /\ oauth.op = "refresh_access_token"
    /\ oauth.raised
    /\ oauth.requests = 1
    /\ oauth.http = 200
    /\ ~oauth.json
    /\ oauth.exc.class = "WithingsOAuthError"
    /\ Held
    /\ token_file = to_dict(token)

\* A step in which a refresh request is sent, by refresh_access_token or by
\* the get_valid_token that calls it.
RefreshRequest ==
    /\ oauth'.op \in {"refresh_access_token", "get_valid_token"}
    /\ oauth'.requests = 1

\* C36: every refresh request sends the refresh_token of the most recent
\* successful exchange or refresh, and each successful refresh replaces
\* access_token, refresh_token and expiry of the held token with those of
\* its response.
C36_RefreshTokenRotates ==
    [][RefreshRequest =>
          /\ oauth'.sent = issued.R
          /\ oauth'.sent # ""
          /\ ~oauth'.raised =>
                /\ token'.access_token = issued'.A
                /\ token'.refresh_token = issued'.R
                /\ token'.token_expiry =
                      now + (IF issued'.E = Absent THEN 10800 ELSE issued'.E)
                /\ token_file' = to_dict(token')]_vars

\* A refresh has sent the refresh token r1 and its response has given a3 and
\* r3, which the client now holds.
C36_Witness ==
    /\ oauth.op \in {"refresh_access_token", "get_valid_token"}
    /\ oauth.requests = 1
    /\ ~oauth.raised
    /\ oauth.sent = "r1"
    /\ issued.R = "r3"
    /\ token.access_token = "a3"
    /\ token.refresh_token = "r3"

(***************************************************************************)
(* Properties of two concurrent invocations (specification SpecTokenRace). *)
(***************************************************************************)
SyncEnded(p) ==
    clients[p].pc \in {"returned", "raised"}

LastSaver ==
    savers[Len(savers)]

LastFinisher ==
    finishers[Len(finishers)]

\* The timestamps of the rows of the measurements table.
StoredTimestamps ==
    { fromisoformat(r.timestamp) : r \in measurements }

\* C27: when two sync invocations run concurrently over one cursor store,
\* the cursor of a data type is, after every write, the row the invocation
\* that wrote last passed to update_sync_state, whatever the row held
\* before and whatever the tables hold.
C27_LastWriterWins ==
    finishers # <<>> =>
        LET a == fetchers[LastFinisher].wrote
        IN /\ sync_state.measurements.status = a.status
           /\ sync_state.measurements.last_data_timestamp =
                 (IF a.ts = None THEN NULL ELSE isoformat(a.ts))

\* Both invocations have ended in success, and the cursor is older than
\* the newest measurement in the table.
C27_Witness ==
    /\ Len(finishers) = 2
    /\ \A q \in Invocations : fetchers[q].wrote.status = "success"
    /\ sync_state.measurements.last_data_timestamp # NULL
    /\ \E ts \in StoredTimestamps :
          ts > fromisoformat(sync_state.measurements.last_data_timestamp)

====
